---- MODULE Spec2Model ----
(***************************************************************************)
(* Flow execution state machine of flow-app: create_flow_instance          *)
(* (StartFlow), complete_task (CompleteTask), the assignee resolver and    *)
(* the stage sequencer, run by concurrent request sessions against one     *)
(* transactional store (READ COMMITTED, row locks on UPDATE).              *)
(***************************************************************************)
EXTENDS Integers, Sequences, FiniteSets, TLC

\* ------------------------------------------------------------------------
\* Bounds of the model
\* ------------------------------------------------------------------------
MaxFlows == 1

\* datetime.now() runs from 1 to MaxClock
MaxClock == 2

\* SQL NULL / Python None (ids and timestamps are >= 1)
None == 0

\* ------------------------------------------------------------------------
\* Stored template data (users, templates, stages, form fields, roles)
\* ------------------------------------------------------------------------
Users == {1, 2, 3}

TemplateIds == {1, 2, 3, 4, 5, 7}

Sessions == {"a", "b"}

\* stages(id): template, order, assignment rule, form fields by FormField.order
Stages ==
  (1 :> [flow_template_id |-> 1, order |-> 1, assignment_type |-> "INITIATOR",
         assignment_target_id |-> None, form_fields |-> <<1, 2>>])
  @@
  (2 :> [flow_template_id |-> 1, order |-> 2, assignment_type |-> "ROLE",
         assignment_target_id |-> 1, form_fields |-> <<3>>])
  @@
  (3 :> [flow_template_id |-> 2, order |-> 1, assignment_type |-> "USER",
         assignment_target_id |-> 2, form_fields |-> <<>>])
  @@
  (4 :> [flow_template_id |-> 2, order |-> 2, assignment_type |-> "INITIATOR",
         assignment_target_id |-> None, form_fields |-> <<>>])
  @@
  (5 :> [flow_template_id |-> 5, order |-> 2, assignment_type |-> "EXTERNAL",
         assignment_target_id |-> None, form_fields |-> <<>>])
  @@
  (6 :> [flow_template_id |-> 5, order |-> 3, assignment_type |-> "USER",
         assignment_target_id |-> 3, form_fields |-> <<>>])
  @@
  (7 :> [flow_template_id |-> 5, order |-> 5, assignment_type |-> "INITIATOR",
         assignment_target_id |-> None, form_fields |-> <<>>])
  @@
  (8 :> [flow_template_id |-> 2, order |-> 3, assignment_type |-> "EXTERNAL",
         assignment_target_id |-> None, form_fields |-> <<>>])
  @@
  (9 :> [flow_template_id |-> 7, order |-> 1, assignment_type |-> "INITIATOR",
         assignment_target_id |-> None, form_fields |-> <<4>>])
  @@
  (10 :> [flow_template_id |-> 7, order |-> 2, assignment_type |-> "USER",
          assignment_target_id |-> 2, form_fields |-> <<>>])
  @@
  (11 :> [flow_template_id |-> 7, order |-> 4, assignment_type |-> "INITIATOR",
          assignment_target_id |-> None, form_fields |-> <<>>])

\* form_fields(id): owning stage, required flag and field type
FormFields ==
  (1 :> [stage_id |-> 1, required |-> TRUE, field_type |-> "text"])
  @@
  (2 :> [stage_id |-> 1, required |-> FALSE, field_type |-> "number"])
  @@
  (3 :> [stage_id |-> 2, required |-> TRUE, field_type |-> "checkbox"])
  @@
  (4 :> [stage_id |-> 9, required |-> FALSE, field_type |-> "date"])

\* FlowTemplate.stages: the template's stages ordered by Stage.order
TemplateStages ==
  (1 :> <<1, 2>>) @@ (2 :> <<3, 4, 8>>) @@ (3 :> <<>>) @@ (4 :> <<>>) @@ (5 :> <<5, 6, 7>>)
  @@ (7 :> <<9, 10, 11>>)

RoleIds == {1}

\* ------------------------------------------------------------------------
\* State
\* ------------------------------------------------------------------------
VARIABLES
  flows,      \* flow_instances: id -> row (committed)
  flowSeq,    \* last id handed out by the flow_instances id sequence
  tasks,      \* task_instances: sequence of committed rows, id = index
  formValues, \* form_data_values: sequence of committed rows
  logs,       \* activity_logs: sequence of committed rows
  tplActive,  \* flow_templates.is_active
  roleUsers,  \* flow_role_users: role id -> members in the order the store returns them
  clock,      \* datetime.now()
  sess,       \* one request session per element of Sessions
  response,   \* the outcome of the request answered last
  call        \* the last direct call of a task_assignment function and its result

dbVars == <<flows, flowSeq, tasks, formValues, logs>>
cfgVars == <<tplActive, roleUsers>>
tables == <<flows, tasks, formValues, logs>>
vars == <<flows, flowSeq, tasks, formValues, logs, tplActive, roleUsers, clock, sess,
          response, call>>

NoRow == [id |-> None]

\* no task_assignment function has been called directly
NoCall == [fn |-> "none"]

IdleSess ==
  [pc |-> "idle", op |-> "none",
   task_id |-> None, actor |-> None, form_data |-> <<>>,
   task |-> NoRow, flow |-> NoRow,
   newValues |-> <<>>, newTasks |-> <<>>, newLogs |-> <<>>,
   taskUpd |-> <<>>, flowUpd |-> <<>>, newFlow |-> NoRow, lock |-> None]

\* the request of session s ends: its session is closed (what it had not
\* committed is rolled back) and the caller gets the outcome
Respond(s, outcome) ==
  /\ sess' = [sess EXCEPT ![s] = IdleSess]
  /\ response' = outcome

\* ------------------------------------------------------------------------
\* Assignee resolver and stage sequencer (services/task_assignment.py)
\* ------------------------------------------------------------------------

\* a resolver that hands an EXTERNAL stage to the initiator
resolve_assignee_ExternalToInitiator(stage, initiator, members) ==
  IF stage.assignment_type = "USER"
    THEN IF stage.assignment_target_id \in Users
           THEN stage.assignment_target_id ELSE None
  ELSE IF stage.assignment_type = "ROLE"
    THEN IF stage.assignment_target_id \notin DOMAIN members THEN None
         ELSE IF members[stage.assignment_target_id] = <<>> THEN None
         ELSE Head(members[stage.assignment_target_id])
  ELSE initiator

\* a resolver that falls back to the initiator when a role has no members
resolve_assignee_EmptyRoleFallsBack(stage, initiator, members) ==
  IF stage.assignment_type = "USER"
    THEN IF stage.assignment_target_id \in Users
           THEN stage.assignment_target_id ELSE None
  ELSE IF stage.assignment_type = "ROLE"
    THEN IF stage.assignment_target_id \notin DOMAIN members THEN initiator
         ELSE IF members[stage.assignment_target_id] = <<>> THEN initiator
         ELSE Head(members[stage.assignment_target_id])
  ELSE IF stage.assignment_type = "INITIATOR"
    THEN initiator
  ELSE None

\* resolve_assignee: the resolved user id, or None
resolve_assignee(stage, initiator, members) ==
  IF stage.assignment_type = "USER"
    THEN IF stage.assignment_target_id = None THEN None
         ELSE IF stage.assignment_target_id \in Users
                THEN stage.assignment_target_id ELSE None
  ELSE IF stage.assignment_type = "ROLE"
    THEN IF stage.assignment_target_id = None THEN None
         ELSE IF stage.assignment_target_id \notin DOMAIN members THEN None
         ELSE IF members[stage.assignment_target_id] = <<>> THEN None
         ELSE Head(members[stage.assignment_target_id])
  ELSE IF stage.assignment_type = "INITIATOR"
    THEN initiator
  ELSE None

\* index of the first stage of the list whose order is o, or 0
RECURSIVE FirstWithOrder(_, _, _)
FirstWithOrder(stageList, o, i) ==
  IF i > Len(stageList) THEN 0
  ELSE IF Stages[stageList[i]].order = o THEN i
  ELSE FirstWithOrder(stageList, o, i + 1)

\* index of the first stage of the list whose order is above o, or 0
RECURSIVE FirstAboveOrder(_, _, _)
FirstAboveOrder(stageList, o, i) ==
  IF i > Len(stageList) THEN 0
  ELSE IF Stages[stageList[i]].order > o THEN i
  ELSE FirstAboveOrder(stageList, o, i + 1)

\* a sequencer that skips gaps: the first stage of the list with a higher order
get_next_stage_SkipsGaps(stageList, current_stage) ==
  IF stageList = <<>> THEN None
  ELSE LET i == FirstAboveOrder(stageList, Stages[current_stage].order, 1)
       IN IF i = 0 THEN None ELSE stageList[i]

\* get_next_stage: id of the stage with order current.order + 1, or None
get_next_stage(stageList, current_stage) ==
  IF stageList = <<>> THEN None
  ELSE LET i == FirstWithOrder(stageList, Stages[current_stage].order + 1, 1)
       IN IF i = 0 THEN None ELSE stageList[i]

\* min(stages, key=order): first stage of the list with the lowest order
RECURSIVE MinByOrder(_, _, _)
MinByOrder(stageList, i, best) ==
  IF i > Len(stageList) THEN best
  ELSE IF Stages[stageList[i]].order < Stages[best].order
         THEN MinByOrder(stageList, i + 1, stageList[i])
         ELSE MinByOrder(stageList, i + 1, best)

\* a first stage without the fallback to the minimum order
get_first_stage_OrderOneOnly(stageList) ==
  IF stageList = <<>> THEN None
  ELSE LET i == FirstWithOrder(stageList, 1, 1)
       IN IF i # 0 THEN stageList[i] ELSE None

\* a first stage taken from the end of the list
get_first_stage_Last(stageList) ==
  IF stageList = <<>> THEN None ELSE stageList[Len(stageList)]

\* get_first_stage: stage with order 1, else the minimum-order stage, or None
get_first_stage(stageList) ==
  IF stageList = <<>> THEN None
  ELSE LET i == FirstWithOrder(stageList, 1, 1)
       IN IF i # 0 THEN stageList[i]
          ELSE MinByOrder(stageList, 2, stageList[1])


\* ------------------------------------------------------------------------
\* Request inputs
\* ------------------------------------------------------------------------

\* the keys of a submitted form_data, in iteration order
FormKeyInputs ==
  {<<>>, <<1>>, <<3>>, <<1, 2>>, <<1, 3>>, <<3, 1>>, <<2, 3>>}

\* form_data: a JSON object, as the list of its (field id, value) items
FormDataOver(keySeqs, values) ==
  UNION { { [i \in 1..Len(ks) |-> <<ks[i], vs[i]>>] : vs \in [1..Len(ks) -> values] } :
          ks \in keySeqs }

FormDataInputs == FormDataOver(FormKeyInputs, {"text:a"})

\* the templates of the general runs and an id that no template has
TemplateIdInputs == {1, 2, 3, 4, 5, 6}

InitiatorInputs == {1, 2}
\* form_data of the runs in which role membership changes
RoleRunFormInputs == FormDataOver({<<>>, <<1>>, <<3>>, <<1, 3>>}, {"text:a"})

RoleUserInputs == {<<>>, <<2, 3>>, <<3>>}

HasKey(form_data, field_id) ==
  \E i \in 1..Len(form_data) : form_data[i][1] = field_id

\* ------------------------------------------------------------------------
\* Read projections (routers/flow_instances.py, routers/tasks.py,
\* routers/users.py). Timestamps are whole seconds of one clock.
\* ------------------------------------------------------------------------

\* flow_instances.py 34-41: seconds from started_at to completed_at, or to now
calculate_elapsed_time(started_at, completed_at, now) ==
  IF completed_at # None THEN completed_at - started_at ELSE now - started_at

\* tasks.py 33-39: the same function as the tasks router defines it
tasks_calculate_elapsed_time(started_at, completed_at, now) ==
  IF completed_at # None THEN completed_at - started_at ELSE now - started_at

\* the rows of a table a query selects (ids), in id order, each with its id
RECURSIVE RowsWhere(_, _, _)
RowsWhere(table, ids, i) ==
  IF i > Len(table) THEN <<>>
  ELSE IF i \in ids THEN <<[id |-> i] @@ table[i]>> \o RowsWhere(table, ids, i + 1)
  ELSE RowsWhere(table, ids, i + 1)

\* a sequence back to front
RECURSIVE Reversed(_)
Reversed(seq) ==
  IF seq = <<>> THEN <<>> ELSE Append(Reversed(Tail(seq)), Head(seq))

\* FlowInstance.tasks with TaskInstance.form_data_values loaded: the flow's
\* task rows, each with its form values
TasksLoaded(taskRows, valueRows, flow_instance_id) ==
  LET ofFlow == { t \in 1..Len(taskRows) :
                    taskRows[t].flow_instance_id = flow_instance_id }
      rows == RowsWhere(taskRows, ofFlow, 1)
  IN [i \in 1..Len(rows) |->
        LET ofTask == { v \in 1..Len(valueRows) :
                          valueRows[v].task_instance_id = rows[i].id }
        IN rows[i] @@ [form_data_values |-> RowsWhere(valueRows, ofTask, 1)]]

\* FlowInstance.activity_logs (order_by created_at desc): the flow's entries,
\* the most recent first
ActivityLogsLoaded(logRows, flow_instance_id) ==
  LET ofFlow == { l \in 1..Len(logRows) :
                    logRows[l].flow_instance_id = flow_instance_id }
  IN Reversed(RowsWhere(logRows, ofFlow, 1))

\* a response of complete_task that leaves the activity log out
complete_task_response_NoLogs(flowRows, taskRows, valueRows, logRows, flow_instance_id, now) ==
  LET flow == flowRows[flow_instance_id]
  IN [flow |-> flow,
      elapsed_time_seconds |->
        tasks_calculate_elapsed_time(flow.started_at, flow.completed_at, now),
      tasks |-> TasksLoaded(taskRows, valueRows, flow_instance_id),
      activity_logs |-> <<>>]

\* tasks.py 218-257: the FlowInstanceDetailResponse of complete_task, from the
\* flow instance queried again after the commit
complete_task_response(flowRows, taskRows, valueRows, logRows, flow_instance_id, now) ==
  LET flow == flowRows[flow_instance_id]
  IN [flow |-> flow,
      elapsed_time_seconds |->
        tasks_calculate_elapsed_time(flow.started_at, flow.completed_at, now),
      tasks |-> TasksLoaded(taskRows, valueRows, flow_instance_id),
      activity_logs |-> ActivityLogsLoaded(logRows, flow_instance_id)]

\* flow_instances.py 143-167: the FlowInstanceDetailResponse of
\* create_flow_instance, from the refreshed flow instance; tasks and
\* activity_logs are the literal empty lists of lines 165-166
create_flow_instance_response(flow, now) ==
  [flow |-> flow,
   elapsed_time_seconds |->
     calculate_elapsed_time(flow.started_at, flow.completed_at, now),
   tasks |-> <<>>,
   activity_logs |-> <<>>]

\* flow_instances.py 192-234: the FlowInstanceDetailResponse of get_flow_instance
get_flow_instance_response(flowRows, taskRows, valueRows, logRows, flow_instance_id, now) ==
  LET flow == flowRows[flow_instance_id]
  IN [flow |-> flow,
      elapsed_time_seconds |->
        calculate_elapsed_time(flow.started_at, flow.completed_at, now),
      tasks |-> TasksLoaded(taskRows, valueRows, flow_instance_id),
      activity_logs |-> ActivityLogsLoaded(logRows, flow_instance_id)]

\* users.py 82-143: the pending tasks assigned to the user, each with the
\* status of its flow instance and the elapsed time of the flow
get_user_tasks(flowRows, taskRows, user_id, now) ==
  LET mine == { t \in 1..Len(taskRows) : /\ taskRows[t].assignee_id = user_id
                                         /\ taskRows[t].status = "PENDING" }
      rows == RowsWhere(taskRows, mine, 1)
  IN [i \in 1..Len(rows) |->
        LET flow_instance == flowRows[rows[i].flow_instance_id]
        IN rows[i] @@
           [flow_status |-> flow_instance.status,
            elapsed_time_seconds |->
              IF flow_instance.completed_at # None
                THEN flow_instance.completed_at - flow_instance.started_at
                ELSE now - flow_instance.started_at]]

\* ------------------------------------------------------------------------
\* complete_task (routers/tasks.py)
\* ------------------------------------------------------------------------

\* a handler without the authorization check
NotAssignee_Unchecked(task, actor) == FALSE

\* a handler without the status check
AlreadyResolved_Unchecked(task) == FALSE

\* a handler without the required-field check
MissingRequired_Unchecked(stage_id, form_data) == FALSE

\* a field lookup by id alone, without the stage filter
FieldOfStage_AnyStage(field_id, stage_id) == field_id \in DOMAIN FormFields

\* a completion that leaves the current stage and assignee in place
FlowFinished_KeepsStage(flow, now) ==
  [flow EXCEPT !.status = "COMPLETED", !.completed_at = now]

\* a completion that forgets the completion timestamp
FlowFinished_NoTimestamp(flow, now) ==
  [flow EXCEPT !.status = "COMPLETED",
               !.current_stage_id = None, !.current_assignee_id = None]

\* an authorization check that lets user 3 complete any task
NotAssignee_AdminBypass(task, actor) == task.assignee_id # actor /\ actor # 3

\* lines 90-95: the caller is not the task's assignee
NotAssignee(task, actor) == task.assignee_id # actor

\* lines 97-102: the task is no longer pending
AlreadyResolved(task) == task.status # "PENDING"

\* lines 108-114: some required field of the stage is not a key of form_data
MissingRequired(stage_id, form_data) ==
  \E i \in 1..Len(Stages[stage_id].form_fields) :
    LET field == Stages[stage_id].form_fields[i]
    IN FormFields[field].required /\ ~HasKey(form_data, field)

\* lines 119-122: the FormField with this id on this stage exists
FieldOfStage(field_id, stage_id) ==
  field_id \in DOMAIN FormFields /\ FormFields[field_id].stage_id = stage_id

\* the FieldType a JSON value would conform to
TypeOfValue(value) ==
  IF value = "text:a" THEN "text"
  ELSE IF value = "number:7" THEN "number"
  ELSE "other"

\* a save loop that also rejects a value whose type is not the field's
RECURSIVE SaveFormData_TypeChecked(_, _, _, _, _)
SaveFormData_TypeChecked(task_id, stage_id, form_data, i, rows) ==
  IF i > Len(form_data) THEN [ok |-> TRUE, rows |-> rows]
  ELSE IF ~FieldOfStage(form_data[i][1], stage_id)
         THEN [ok |-> FALSE, rows |-> rows]
  ELSE IF FormFields[form_data[i][1]].field_type # TypeOfValue(form_data[i][2])
         THEN [ok |-> FALSE, rows |-> rows]
  ELSE SaveFormData_TypeChecked(task_id, stage_id, form_data, i + 1,
         Append(rows, [task_instance_id |-> task_id,
                       form_field_id |-> form_data[i][1],
                       value |-> form_data[i][2]]))

\* lines 117-136: the save loop; rows added to the session until a key is
\* not a field of the stage (ok = FALSE: the loop raised)
RECURSIVE SaveFormData(_, _, _, _, _)
SaveFormData(task_id, stage_id, form_data, i, rows) ==
  IF i > Len(form_data) THEN [ok |-> TRUE, rows |-> rows]
  ELSE IF ~FieldOfStage(form_data[i][1], stage_id)
         THEN [ok |-> FALSE, rows |-> rows]
  ELSE SaveFormData(task_id, stage_id, form_data, i + 1,
         Append(rows, [task_instance_id |-> task_id,
                       form_field_id |-> form_data[i][1],
                       value |-> form_data[i][2]]))

\* the columns of a loaded row whose value the handler changed (the UPDATE's SET list)
ChangedCols(loaded, new) ==
  LET cols == { c \in DOMAIN new : new[c] # loaded[c] }
  IN [c \in cols |-> new[c]]

\* a committed row after an UPDATE of the given columns
ApplyUpdate(row, upd) ==
  [c \in DOMAIN row |-> IF c \in DOMAIN upd THEN upd[c] ELSE row[c]]

\* lines 138-140: the task marked completed
TaskCompleted(task, now) ==
  [task EXCEPT !.status = "COMPLETED", !.completed_at = now]

\* an advance that hands the flow instance over to the next assignee
FlowAdvanced_NewInitiator(flow, next_stage, next_assignee) ==
  [flow EXCEPT !.current_stage_id = next_stage,
               !.current_assignee_id = next_assignee,
               !.initiator_id = next_assignee]

\* an advance that parks the flow instance as STALLED
FlowAdvanced_Stalls(flow, next_stage, next_assignee) ==
  [flow EXCEPT !.status = "STALLED",
               !.current_stage_id = next_stage,
               !.current_assignee_id = next_assignee]

\* lines 170-172: the flow instance advanced to the next stage
FlowAdvanced(flow, next_stage, next_assignee) ==
  [flow EXCEPT !.current_stage_id = next_stage,
               !.current_assignee_id = next_assignee]

\* a finish that marks the flow instance TERMINATED
FlowFinished_Terminates(flow, now) ==
  [flow EXCEPT !.status = "TERMINATED", !.completed_at = now,
               !.current_stage_id = None, !.current_assignee_id = None]

\* lines 194-198: the flow instance marked completed
FlowFinished(flow, now) ==
  [flow EXCEPT !.status = "COMPLETED", !.completed_at = now,
               !.current_stage_id = None, !.current_assignee_id = None]

\* a resolution against the user who completes the task
ResolveAgainst_Actor(flow, actor) == actor

\* line 153: the user the next stage is resolved against, flow_instance.initiator
ResolveAgainst(flow, actor) == flow.initiator_id

\* resolve_assignee issues a query (and so autoflushes the pending UPDATE of
\* the task row, taking its row lock) for USER and ROLE rules with a target
ResolveQueries(stage) ==
  stage.assignment_type \in {"USER", "ROLE"} /\ stage.assignment_target_id # None

\* a lock on the whole task_instances table
RowLockedByOther_TableLock(s, task_id) ==
  \E o \in Sessions \ {s} : sess[o].lock # None

\* the task row is locked by an uncommitted UPDATE of another session
RowLockedByOther(s, task_id) ==
  \E o \in Sessions \ {s} : sess[o].lock = task_id

\* lines 78-88: load the task with its stage, flow instance and template
CT_Load(s, task_id) ==
  /\ sess[s].pc = "idle"
  /\ IF task_id \notin 1..Len(tasks)
       THEN Respond(s, [op |-> "complete_task", outcome |-> "TaskNotFound"])
       ELSE /\ sess' = [sess EXCEPT ![s] =
                 [IdleSess EXCEPT !.pc = "loaded", !.op = "complete_task",
                                  !.task_id = task_id,
                                  !.task = tasks[task_id],
                                  !.flow = flows[tasks[task_id].flow_instance_id]]]
            /\ UNCHANGED response
  /\ UNCHANGED <<dbVars, cfgVars, clock, call>>

\* a handler that refuses tasks of a template that is not active
CheckOutcome_ActiveTemplateOnly(task_id, task, actor, form_data) ==
  IF ~tplActive[Stages[task.stage_id].flow_template_id] THEN "TemplateInactive"
  ELSE IF NotAssignee(task, actor) THEN "NotAssignee"
  ELSE IF AlreadyResolved(task) THEN "TaskAlreadyResolved"
  ELSE IF MissingRequired(task.stage_id, form_data) THEN "MissingRequiredField"
  ELSE IF ~SaveFormData(task_id, task.stage_id, form_data, 1, <<>>).ok
    THEN "UnknownField"
  ELSE "pass"

\* a handler that looks at the task's status before it looks at the caller,
\* and at the supplied keys before the required ones
CheckOutcome_StatusAndKeysFirst(task_id, task, actor, form_data) ==
  IF AlreadyResolved(task) THEN "TaskAlreadyResolved"
  ELSE IF NotAssignee(task, actor) THEN "NotAssignee"
  ELSE IF ~SaveFormData(task_id, task.stage_id, form_data, 1, <<>>).ok
    THEN "UnknownField"
  ELSE IF MissingRequired(task.stage_id, form_data) THEN "MissingRequiredField"
  ELSE "pass"

\* lines 90-128: the check that raises first, or "pass"
CheckOutcome(task_id, task, actor, form_data) ==
  IF NotAssignee(task, actor) THEN "NotAssignee"
  ELSE IF AlreadyResolved(task) THEN "TaskAlreadyResolved"
  ELSE IF MissingRequired(task.stage_id, form_data) THEN "MissingRequiredField"
  ELSE IF ~SaveFormData(task_id, task.stage_id, form_data, 1, <<>>).ok
    THEN "UnknownField"
  ELSE "pass"

\* lines 90-136: authorization, state check, validation, form data added.
\* current_user and form_data are read here first (lines 91 and 106), so
\* the request's actor and form_data are drawn in this step
CT_Check(s, actor, form_data) ==
  /\ sess[s].pc = "loaded"
  /\ LET r == sess[s]
         outcome == CheckOutcome(r.task_id, r.task, actor, form_data)
     IN IF outcome # "pass"
          THEN Respond(s, [op |-> "complete_task", outcome |-> outcome])
          ELSE /\ sess' = [sess EXCEPT ![s] =
                    [r EXCEPT !.pc = "checked", !.actor = actor,
                              !.form_data = form_data,
                              !.newValues = SaveFormData(r.task_id, r.task.stage_id,
                                                         form_data, 1, <<>>).rows]]
               /\ UNCHANGED response
  /\ UNCHANGED <<dbVars, cfgVars, clock, call>>

\* lines 138-212: mark the task completed, advance or finish the flow
CT_Write(s) ==
  /\ sess[s].pc = "checked"
  /\ LET r == sess[s]
         stage == r.task.stage_id
         next_stage == get_next_stage(TemplateStages[r.flow.flow_template_id], stage)
         taskUpd == ChangedCols(r.task, TaskCompleted(r.task, clock))
     IN IF next_stage # None
          THEN LET next_assignee ==
                     resolve_assignee(Stages[next_stage], ResolveAgainst(r.flow, r.actor),
                                      roleUsers)
               IN /\ ResolveQueries(Stages[next_stage]) => ~RowLockedByOther(s, r.task_id)
                  /\ IF next_assignee = None
                       THEN Respond(s, [op |-> "complete_task",
                                        outcome |-> "AssigneeUnresolvable"])
                       ELSE /\ sess' = [sess EXCEPT ![s] =
                                 [r EXCEPT
                                    !.pc = "written",
                                    !.taskUpd = taskUpd,
                                    !.lock = IF ResolveQueries(Stages[next_stage])
                                               THEN r.task_id ELSE None,
                                    !.newTasks = <<[flow_instance_id |-> r.flow.id,
                                                    stage_id |-> next_stage,
                                                    assignee_id |-> next_assignee,
                                                    status |-> "PENDING",
                                                    assigned_at |-> clock,
                                                    completed_at |-> None]>>,
                                    !.flowUpd = ChangedCols(r.flow,
                                       FlowAdvanced(r.flow, next_stage, next_assignee)),
                                    !.newLogs = <<[flow_instance_id |-> r.flow.id,
                                                   activity_type |-> "STAGE_COMPLETED",
                                                   actor_id |-> r.actor,
                                                   stage_id |-> stage,
                                                   next_stage_id |-> next_stage,
                                                   next_assignee_id |-> next_assignee]>>]]
                            /\ UNCHANGED response
          ELSE /\ sess' = [sess EXCEPT ![s] =
                    [r EXCEPT
                       !.pc = "written",
                       !.taskUpd = taskUpd,
                       !.flowUpd = ChangedCols(r.flow, FlowFinished(r.flow, clock)),
                       !.newLogs = <<[flow_instance_id |-> r.flow.id,
                                      activity_type |-> "FLOW_COMPLETED",
                                      actor_id |-> r.actor,
                                      stage_id |-> stage,
                                      next_stage_id |-> None,
                                      next_assignee_id |-> None]>>]]
               /\ UNCHANGED response
  /\ UNCHANGED <<dbVars, cfgVars, clock, call>>

\* an insert that replaces the entries the table held
InsertedLogs_Replacing(committed, rows) == rows

\* lines 187 and 210, db.add(activity_log), committed at line 215: the new
\* entries are INSERTed after the committed ones
InsertedLogs(committed, rows) == committed \o rows

\* lines 214-257: flush what is pending, commit, and answer with the flow
\* instance loaded again
CT_Commit(s) ==
  /\ sess[s].pc = "written"
  /\ ~RowLockedByOther(s, sess[s].task_id)
  /\ LET r == sess[s]
     IN /\ tasks' = [tasks EXCEPT ![r.task_id] = ApplyUpdate(tasks[r.task_id], r.taskUpd)]
                      \o r.newTasks
        /\ flows' = [flows EXCEPT ![r.flow.id] = ApplyUpdate(flows[r.flow.id], r.flowUpd)]
        /\ formValues' = formValues \o r.newValues
        /\ logs' = InsertedLogs(logs, r.newLogs)
        /\ Respond(s, [op |-> "complete_task", outcome |-> "ok",
                       flow_instance |->
                         complete_task_response(flows', tasks', formValues', logs',
                                                r.flow.id, clock)])
  /\ UNCHANGED <<flowSeq, cfgVars, clock, call>>

\* ------------------------------------------------------------------------
\* create_flow_instance (routers/flow_instances.py)
\* ------------------------------------------------------------------------

\* a handler that looks for the first stage before it looks at is_active
StartOutcome_StagesBeforeActive(template_id, initiator) ==
  IF template_id \notin TemplateIds THEN "TemplateNotFound"
  ELSE IF get_first_stage(TemplateStages[template_id]) = None THEN "NoStagesDefined"
  ELSE IF ~tplActive[template_id] THEN "TemplateInactive"
  ELSE IF resolve_assignee(Stages[get_first_stage(TemplateStages[template_id])],
                           initiator, roleUsers) = None
    THEN "AssigneeUnresolvable"
  ELSE "pass"

\* a flush that makes the flow instance visible to other transactions
FlushedFlows_Visible(committed, row) == committed @@ (row.id :> row)

\* lines 114-115, db.add(flow_instance); db.flush(): the INSERT is sent inside
\* the open transaction, the committed flow_instances table stays as it was
FlushedFlows(committed, row) == committed

\* lines 70-101: the check that raises first, or "pass"
StartOutcome(template_id, initiator) ==
  IF template_id \notin TemplateIds THEN "TemplateNotFound"
  ELSE IF ~tplActive[template_id] THEN "TemplateInactive"
  ELSE IF get_first_stage(TemplateStages[template_id]) = None THEN "NoStagesDefined"
  ELSE IF resolve_assignee(Stages[get_first_stage(TemplateStages[template_id])],
                           initiator, roleUsers) = None
    THEN "AssigneeUnresolvable"
  ELSE "pass"

\* lines 70-115: load the template, resolve the first stage and its assignee,
\* add the flow instance and flush it (the id sequence hands out its id)
CreateFlow_Begin(s, template_id, initiator) ==
  /\ sess[s].pc = "idle"
  /\ LET outcome == StartOutcome(template_id, initiator)
     IN IF outcome # "pass"
          THEN /\ Respond(s, [op |-> "create_flow_instance", outcome |-> outcome])
               /\ UNCHANGED <<flowSeq, flows>>
          ELSE LET first_stage == get_first_stage(TemplateStages[template_id])
                   first_assignee ==
                     resolve_assignee(Stages[first_stage], initiator, roleUsers)
                   flow_instance == [id |-> flowSeq + 1,
                                     flow_template_id |-> template_id,
                                     status |-> "ACTIVE",
                                     current_stage_id |-> first_stage,
                                     current_assignee_id |-> first_assignee,
                                     initiator_id |-> initiator,
                                     started_at |-> clock,
                                     completed_at |-> None]
               IN /\ flowSeq < MaxFlows
                  /\ flowSeq' = flowSeq + 1
                  /\ flows' = FlushedFlows(flows, flow_instance)
                  /\ sess' = [sess EXCEPT ![s] =
                       [IdleSess EXCEPT
                          !.pc = "flushed", !.op = "create_flow_instance",
                          !.actor = initiator,
                          !.newFlow = flow_instance]]
                  /\ UNCHANGED response
  /\ UNCHANGED <<tasks, formValues, logs, cfgVars, clock, call>>

\* lines 117-169: add the first task and the FLOW_STARTED entry, commit,
\* and answer with the refreshed flow instance
CreateFlow_Commit(s) ==
  /\ sess[s].pc = "flushed"
  /\ LET f == sess[s].newFlow
     IN /\ flows' = flows @@ (f.id :> f)
        /\ tasks' = Append(tasks, [flow_instance_id |-> f.id,
                                   stage_id |-> f.current_stage_id,
                                   assignee_id |-> f.current_assignee_id,
                                   status |-> "PENDING",
                                   assigned_at |-> clock,
                                   completed_at |-> None])
        /\ logs' = Append(logs, [flow_instance_id |-> f.id,
                                 activity_type |-> "FLOW_STARTED",
                                 actor_id |-> sess[s].actor,
                                 stage_id |-> None,
                                 next_stage_id |-> None,
                                 next_assignee_id |-> None])
        /\ Respond(s, [op |-> "create_flow_instance", outcome |-> "ok",
                       flow_instance |-> create_flow_instance_response(flows'[f.id], clock)])
  /\ UNCHANGED <<flowSeq, formValues, cfgVars, clock, call>>

\* ------------------------------------------------------------------------
\* Template administration (routers/flows.py)
\* ------------------------------------------------------------------------

\* update_flow_template, lines 114-141: 404 for an unknown template, else
\* is_active is set and committed
UpdateFlowTemplate(flow_id, is_active) ==
  /\ IF flow_id \notin TemplateIds
       THEN /\ response' = [op |-> "update_flow_template", outcome |-> "TemplateNotFound"]
            /\ UNCHANGED tplActive
       ELSE /\ response' = [op |-> "update_flow_template", outcome |-> "ok"]
            /\ tplActive' = [tplActive EXCEPT ![flow_id] = is_active]
  /\ UNCHANGED <<dbVars, roleUsers, clock, call, sess>>

\* a membership update that hands the PENDING tasks of the role's stages to
\* the new first member
UpdateFlowRole_Reassigns(role_id, users) ==
  /\ roleUsers' = [roleUsers EXCEPT ![role_id] = users]
  /\ tasks' = [t \in DOMAIN tasks |->
                 IF /\ tasks[t].status = "PENDING"
                    /\ Stages[tasks[t].stage_id].assignment_type = "ROLE"
                    /\ Stages[tasks[t].stage_id].assignment_target_id = role_id
                    /\ users # <<>>
                   THEN [tasks[t] EXCEPT !.assignee_id = Head(users)]
                   ELSE tasks[t]]
  /\ UNCHANGED <<flows, flowSeq, formValues, logs, tplActive, clock, call, sess, response>>

\* update_flow_role, lines 480-485: replace the role's members and commit
UpdateFlowRole(role_id, users) ==
  /\ roleUsers' = [roleUsers EXCEPT ![role_id] = users]
  /\ UNCHANGED <<dbVars, tplActive, clock, call, sess, response>>

\* ------------------------------------------------------------------------
\* Specification: any interleaving of StartFlow and CompleteTask requests
\* over the stored templates
\* ------------------------------------------------------------------------
Init ==
  /\ flows = <<>>
  /\ flowSeq = 0
  /\ tasks = <<>>
  /\ formValues = <<>>
  /\ logs = <<>>
  /\ tplActive = [t \in TemplateIds |-> t # 4]
  /\ roleUsers = [r \in RoleIds |-> <<2, 3>>]
  /\ clock = 1
  /\ sess = [s \in Sessions |-> IdleSess]
  /\ response = [op |-> "none", outcome |-> "none"]
  /\ call = NoCall

Next ==
  \/ \E s \in Sessions, task_id \in 1..(Len(tasks) + 1) : CT_Load(s, task_id)
  \/ \E s \in Sessions, actor \in Users, form_data \in FormDataInputs :
        CT_Check(s, actor, form_data)
  \/ \E s \in Sessions : CT_Write(s)
  \/ \E s \in Sessions : CT_Commit(s)
  \/ \E s \in Sessions, template_id \in TemplateIdInputs, initiator \in InitiatorInputs :
        CreateFlow_Begin(s, template_id, initiator)
  \/ \E s \in Sessions : CreateFlow_Commit(s)

Spec == Init /\ [][Next]_vars

\* the same, with role membership edited while flows run
NextRoles ==
  \/ \E s \in Sessions, task_id \in 1..(Len(tasks) + 1) : CT_Load(s, task_id)
  \/ \E s \in Sessions, actor \in Users, form_data \in RoleRunFormInputs :
       CT_Check(s, actor, form_data)
  \/ \E s \in Sessions : CT_Write(s)
  \/ \E s \in Sessions : CT_Commit(s)
  \/ \E s \in Sessions : CreateFlow_Begin(s, 1, 1)
  \/ \E s \in Sessions : CreateFlow_Commit(s)
  \/ \E role_id \in RoleIds, users \in RoleUserInputs : UpdateFlowRole(role_id, users)

SpecRoles == Init /\ [][NextRoles]_vars

\* ------------------------------------------------------------------------
\* Read requests and the passage of time
\* ------------------------------------------------------------------------

\* the clock that datetime.now() reads moves on
Tick ==
  /\ clock < MaxClock
  /\ clock' = clock + 1
  /\ UNCHANGED <<dbVars, cfgVars, sess, response, call>>

\* get_flow_instance, flow_instances.py 173-236: one query, 404 or the detail
GetFlowInstance(flow_instance_id) ==
  /\ response' =
       IF flow_instance_id \notin DOMAIN flows
         THEN [op |-> "get_flow_instance", outcome |-> "FlowNotFound"]
         ELSE [op |-> "get_flow_instance", outcome |-> "ok",
               flow_instance |->
                 get_flow_instance_response(flows, tasks, formValues, logs,
                                            flow_instance_id, clock)]
  /\ UNCHANGED <<dbVars, cfgVars, clock, sess, call>>

\* get_user_tasks, users.py 69-145: one query, the list built from it
GetUserTasks(user_id) ==
  /\ response' = [op |-> "get_user_tasks", outcome |-> "ok", user_id |-> user_id,
                  tasks |-> get_user_tasks(flows, tasks, user_id, clock)]
  /\ UNCHANGED <<dbVars, cfgVars, clock, sess, call>>

\* the ids asked for: those handed out so far and one that does not exist
FlowIdInputs == 1..(MaxFlows + 1)

\* form_data of the runs with reads: the required field of stage 1, of stage 2
ReadRunFormInputs == FormDataOver({<<1>>, <<3>>}, {"text:a"})

\* the callers of the runs with reads: the initiator and the first role member
ReadRunActors == {1, 2}

\* flows of template 1 started by user 1, completed and read while time passes
NextReads ==
  \/ \E s \in Sessions, task_id \in 1..(Len(tasks) + 1) : CT_Load(s, task_id)
  \/ \E s \in Sessions, actor \in ReadRunActors, form_data \in ReadRunFormInputs :
       CT_Check(s, actor, form_data)
  \/ \E s \in Sessions : CT_Write(s)
  \/ \E s \in Sessions : CT_Commit(s)
  \/ \E s \in Sessions : CreateFlow_Begin(s, 1, 1)
  \/ \E s \in Sessions : CreateFlow_Commit(s)
  \/ Tick
  \/ \E flow_instance_id \in FlowIdInputs : GetFlowInstance(flow_instance_id)
  \/ \E user_id \in Users : GetUserTasks(user_id)

SpecReads == Init /\ [][NextReads]_vars

\* ------------------------------------------------------------------------
\* Two flow instances side by side: the store after create_flow_instance of
\* template 1 and then of template 2, both by user 1, and the CompleteTask
\* requests that follow
\* ------------------------------------------------------------------------

\* the flow instance row create_flow_instance commits (lines 104-113)
FlowStarted(id, template_id, initiator, members, now) ==
  LET first_stage == get_first_stage(TemplateStages[template_id])
  IN [id |-> id,
      flow_template_id |-> template_id,
      status |-> "ACTIVE",
      current_stage_id |-> first_stage,
      current_assignee_id |-> resolve_assignee(Stages[first_stage], initiator, members),
      initiator_id |-> initiator,
      started_at |-> now,
      completed_at |-> None]

\* the first task create_flow_instance commits (lines 118-124)
FirstTask(flow, now) ==
  [flow_instance_id |-> flow.id,
   stage_id |-> flow.current_stage_id,
   assignee_id |-> flow.current_assignee_id,
   status |-> "PENDING",
   assigned_at |-> now,
   completed_at |-> None]

\* the FLOW_STARTED entry create_flow_instance commits (lines 128-137)
FlowStartedLog(flow) ==
  [flow_instance_id |-> flow.id,
   activity_type |-> "FLOW_STARTED",
   actor_id |-> flow.initiator_id,
   stage_id |-> None,
   next_stage_id |-> None,
   next_assignee_id |-> None]

InitTwoFlows ==
  LET members == [r \in RoleIds |-> <<2, 3>>]
      first == FlowStarted(1, 1, 1, members, 1)
      second == FlowStarted(2, 2, 1, members, 1)
  IN /\ flows = (1 :> first) @@ (2 :> second)
     /\ flowSeq = 2
     /\ tasks = <<FirstTask(first, 1), FirstTask(second, 1)>>
     /\ formValues = <<>>
     /\ logs = <<FlowStartedLog(first), FlowStartedLog(second)>>
     /\ tplActive = [t \in TemplateIds |-> t # 4]
     /\ roleUsers = members
     /\ clock = 1
     /\ sess = [s \in Sessions |-> IdleSess]
     /\ response = [op |-> "create_flow_instance", outcome |-> "ok",
                    flow_instance |-> create_flow_instance_response(second, 1)]
     /\ call = NoCall

\* form_data of the two-flow runs: none, the required field of stage 1, a
\* field of stage 2
TwoFlowsFormInputs == FormDataOver({<<>>, <<1>>, <<3>>}, {"text:a"})

\* the callers of the two-flow runs: the assignees of the first tasks
TwoFlowsActors == {1, 2}

NextTwoFlows ==
  \/ \E s \in Sessions, task_id \in 1..(Len(tasks) + 1) : CT_Load(s, task_id)
  \/ \E s \in Sessions, actor \in TwoFlowsActors, form_data \in TwoFlowsFormInputs :
       CT_Check(s, actor, form_data)
  \/ \E s \in Sessions : CT_Write(s)
  \/ \E s \in Sessions : CT_Commit(s)

SpecTwoFlows == InitTwoFlows /\ [][NextTwoFlows]_vars

\* ------------------------------------------------------------------------
\* Runs with values of several types: flows of templates 1 and 2 started
\* by user 1, completed with text and number values in any field
\* ------------------------------------------------------------------------

\* JSON values: a string and a number
ValueInputs == {"text:a", "number:7"}

\* form_data: none; text field 1 with a string, with a number, and with a
\* number beside number field 2 with a string; checkbox field 3 with a string
ValueFormInputs ==
  { form_data \in FormDataOver({<<>>, <<1>>, <<1, 2>>, <<3>>}, ValueInputs) :
      /\ Len(form_data) = 2 => form_data = <<<<1, "number:7">>, <<2, "text:a">>>>
      /\ (Len(form_data) = 1 /\ form_data[1][1] = 3) => form_data[1][2] = "text:a" }

ValueRunTemplates == {1, 2}

ValueRunActors == {1, 2}

NextValues ==
  \/ \E s \in Sessions, task_id \in 1..(Len(tasks) + 1) : CT_Load(s, task_id)
  \/ \E s \in Sessions, actor \in ValueRunActors, form_data \in ValueFormInputs :
       CT_Check(s, actor, form_data)
  \/ \E s \in Sessions : CT_Write(s)
  \/ \E s \in Sessions : CT_Commit(s)
  \/ \E s \in Sessions, template_id \in ValueRunTemplates :
       CreateFlow_Begin(s, template_id, 1)
  \/ \E s \in Sessions : CreateFlow_Commit(s)

SpecValues == Init /\ [][NextValues]_vars

\* ------------------------------------------------------------------------
\* Runs of template 7, whose stage orders are 1, 2, 4
\* ------------------------------------------------------------------------

\* form_data of the gap runs: none, the optional field of stage 9
GapRunFormInputs == FormDataOver({<<>>, <<4>>}, {"text:a"})

NextGap ==
  \/ \E s \in Sessions, task_id \in 1..(Len(tasks) + 1) : CT_Load(s, task_id)
  \/ \E s \in Sessions, actor \in Users, form_data \in GapRunFormInputs :
       CT_Check(s, actor, form_data)
  \/ \E s \in Sessions : CT_Write(s)
  \/ \E s \in Sessions : CT_Commit(s)
  \/ \E s \in Sessions, initiator \in InitiatorInputs : CreateFlow_Begin(s, 7, initiator)
  \/ \E s \in Sessions : CreateFlow_Commit(s)

SpecGap == Init /\ [][NextGap]_vars

\* ------------------------------------------------------------------------
\* Runs in which assignees submit valid requests: flows of template 1 and of
\* template 7 (every stage has an assignee) started by user 1; every PENDING
\* task is eventually submitted by its assignee with valid form_data, and
\* the server runs every request to its end
\* ------------------------------------------------------------------------

\* form_data of the valid requests: none, the required field of stage 1, of stage 2
LiveFormInputs == FormDataOver({<<>>, <<1>>, <<3>>}, {"text:a"})

LiveTemplates == {1, 7}

\* a request on a task that is PENDING
SubmitPending(s, task_id) ==
  /\ task_id \in 1..Len(tasks)
  /\ tasks[task_id].status = "PENDING"
  /\ CT_Load(s, task_id)

\* the request is the assignee's and its form_data has the required fields
\* of the stage and no other keys than fields of the stage
CheckValid(s, actor, form_data) ==
  /\ sess[s].pc = "loaded"
  /\ actor = sess[s].task.assignee_id
  /\ \A fld \in DOMAIN FormFields :
       (FormFields[fld].stage_id = sess[s].task.stage_id /\ FormFields[fld].required)
       => HasKey(form_data, fld)
  /\ \A i \in 1..Len(form_data) :
       /\ form_data[i][1] \in DOMAIN FormFields
       /\ FormFields[form_data[i][1]].stage_id = sess[s].task.stage_id
  /\ CT_Check(s, actor, form_data)

NextLive ==
  \/ \E s \in Sessions, task_id \in 1..Len(tasks) : SubmitPending(s, task_id)
  \/ \E s \in Sessions, actor \in Users, form_data \in LiveFormInputs :
       CheckValid(s, actor, form_data)
  \/ \E s \in Sessions : CT_Write(s)
  \/ \E s \in Sessions : CT_Commit(s)
  \/ \E s \in Sessions, template_id \in LiveTemplates : CreateFlow_Begin(s, template_id, 1)
  \/ \E s \in Sessions : CreateFlow_Commit(s)

SpecLive ==
  /\ Init
  /\ [][NextLive]_vars
  /\ WF_vars(\E s \in Sessions, task_id \in 1..Len(tasks) : SubmitPending(s, task_id))
  /\ WF_vars(\E s \in Sessions, actor \in Users, form_data \in LiveFormInputs :
               CheckValid(s, actor, form_data))
  /\ WF_vars(\E s \in Sessions : CT_Write(s))
  /\ WF_vars(\E s \in Sessions : CT_Commit(s))
  /\ WF_vars(\E s \in Sessions : CreateFlow_Commit(s))

\* ------------------------------------------------------------------------
\* Runs in which template 1 is deactivated and activated while its flows run
\* ------------------------------------------------------------------------

\* the template ids of update_flow_template: template 1 and an id no
\* template has
UpdatedTemplateInputs == {1, 6}

NextTemplates ==
  \/ \E s \in Sessions, task_id \in 1..(Len(tasks) + 1) : CT_Load(s, task_id)
  \/ \E s \in Sessions, actor \in ReadRunActors, form_data \in ReadRunFormInputs :
       CT_Check(s, actor, form_data)
  \/ \E s \in Sessions : CT_Write(s)
  \/ \E s \in Sessions : CT_Commit(s)
  \/ \E s \in Sessions : CreateFlow_Begin(s, 1, 1)
  \/ \E s \in Sessions : CreateFlow_Commit(s)
  \/ \E flow_id \in UpdatedTemplateInputs, is_active \in BOOLEAN :
       UpdateFlowTemplate(flow_id, is_active)

SpecTemplates == Init /\ [][NextTemplates]_vars

\* ------------------------------------------------------------------------
\* The functions of services/task_assignment.py called on their own
\* ------------------------------------------------------------------------

\* the sub-sequences of a sequence, in its order
RECURSIVE SubLists(_)
SubLists(seq) ==
  IF seq = <<>> THEN {<<>>}
  ELSE LET rest == SubLists(Tail(seq))
       IN rest \cup { <<Head(seq)>> \o r : r \in rest }

\* flow_template.stages of a template with some of the stored stages, in
\* the relationship's order (order_by Stage.order)
StageListInputs == UNION { SubLists(TemplateStages[t]) : t \in TemplateIds }

\* the assignment rule of a stage: every type with no target, an existing
\* user or role (1, 2), and a target that is neither (9)
StageRuleInputs ==
  [assignment_type : {"USER", "ROLE", "INITIATOR", "EXTERNAL"},
   assignment_target_id : {None, 1, 2, 9}]

\* the members of a role, in the order the store returns them
RoleMemberInputs == {<<>>, <<3>>, <<2, 3>>, <<3, 1, 2>>}

\* the orders in which the store can return the same rows
Reorderings(seq) ==
  { p \in [1..Len(seq) -> { seq[i] : i \in 1..Len(seq) }] :
      \A i, j \in 1..Len(seq) : p[i] = p[j] => i = j }

Call_get_next_stage(stageList, current_stage) ==
  /\ call' = [fn |-> "get_next_stage", stages |-> stageList, current |-> current_stage,
              result |-> get_next_stage(stageList, current_stage)]
  /\ UNCHANGED <<dbVars, cfgVars, clock, sess, response>>

Call_get_first_stage(stageList) ==
  /\ call' = [fn |-> "get_first_stage", stages |-> stageList,
              result |-> get_first_stage(stageList)]
  /\ UNCHANGED <<dbVars, cfgVars, clock, sess, response>>

Call_resolve_assignee(stage, initiator) ==
  /\ call' = [fn |-> "resolve_assignee", stage |-> stage, initiator |-> initiator,
              members |-> roleUsers,
              result |-> resolve_assignee(stage, initiator, roleUsers)]
  /\ UNCHANGED <<dbVars, cfgVars, clock, sess, response>>

\* FlowRole.users has no order_by: the rows of an unchanged membership come
\* back from the store in an order the query does not fix
StoreReorders(role_id, users) ==
  /\ users \in Reorderings(roleUsers[role_id])
  /\ users # roleUsers[role_id]
  /\ roleUsers' = [roleUsers EXCEPT ![role_id] = users]
  /\ UNCHANGED <<dbVars, tplActive, clock, call, sess, response>>

InitCalls ==
  /\ flows = <<>>
  /\ flowSeq = 0
  /\ tasks = <<>>
  /\ formValues = <<>>
  /\ logs = <<>>
  /\ tplActive = [t \in TemplateIds |-> t # 4]
  /\ roleUsers \in [RoleIds -> RoleMemberInputs]
  /\ clock = 1
  /\ sess = [s \in Sessions |-> IdleSess]
  /\ response = [op |-> "none", outcome |-> "none"]
  /\ call = NoCall

NextCalls ==
  \/ \E stageList \in StageListInputs, current_stage \in DOMAIN Stages :
       Call_get_next_stage(stageList, current_stage)
  \/ \E stageList \in StageListInputs : Call_get_first_stage(stageList)
  \/ \E stage \in StageRuleInputs, initiator \in Users :
       Call_resolve_assignee(stage, initiator)
  \/ \E role_id \in RoleIds : \E users \in Reorderings(roleUsers[role_id]) :
       StoreReorders(role_id, users)

SpecCalls == InitCalls /\ [][NextCalls]_vars

\* ------------------------------------------------------------------------
\* Properties
\* ------------------------------------------------------------------------
TaskIds == 1..Len(tasks)
TasksOf(f) == { t \in TaskIds : tasks[t].flow_instance_id = f }
PendingOf(f) == { t \in TasksOf(f) : tasks[t].status = "PENDING" }
CompletedOf(f) == { t \in TasksOf(f) : tasks[t].status = "COMPLETED" }
CompletionLogs(f) ==
  { i \in 1..Len(logs) : /\ logs[i].flow_instance_id = f
                         /\ logs[i].activity_type \in {"STAGE_COMPLETED", "FLOW_COMPLETED"} }

\* the request of session s was answered in this step
Answered(s, outcome) ==
  /\ sess'[s].pc = "idle"
  /\ response'.op = "complete_task"
  /\ response'.outcome = outcome

\* some key of form_data is not the id of a FormField of the stage
HasForeignKey(form_data, stage_id) ==
  \E i \in 1..Len(form_data) :
    \/ form_data[i][1] \notin DOMAIN FormFields
    \/ FormFields[form_data[i][1]].stage_id # stage_id

\* some required FormField of the stage is not a key of form_data
LacksRequiredKey(form_data, stage_id) ==
  \E fld \in DOMAIN FormFields :
    /\ FormFields[fld].stage_id = stage_id
    /\ FormFields[fld].required
    /\ \A i \in 1..Len(form_data) : form_data[i][1] # fld

\* the assignment rule of the stage yields no user (spec 4.1)
NoAssigneeFor(stage_id) ==
  LET stage == Stages[stage_id]
  IN \/ stage.assignment_type = "EXTERNAL"
     \/ /\ stage.assignment_type = "USER"
        /\ stage.assignment_target_id \notin Users
     \/ /\ stage.assignment_type = "ROLE"
        /\ \/ stage.assignment_target_id \notin DOMAIN roleUsers
           \/ roleUsers[stage.assignment_target_id] = <<>>

\* the template of the session's flow has a stage right after the task's stage
\* and that stage has no assignee
NextStageUnresolvable(s) ==
  \E n \in DOMAIN Stages :
    /\ Stages[n].flow_template_id = sess[s].flow.flow_template_id
    /\ Stages[n].order = Stages[sess[s].task.stage_id].order + 1
    /\ NoAssigneeFor(n)

\* C1: of the CompleteTask calls on one PENDING task exactly one succeeds: a
\* flow never has more STAGE_COMPLETED/FLOW_COMPLETED entries than COMPLETED
\* tasks, and never more tasks than one per completed task plus the first.
\* Violated: complete_task takes no row lock and makes no optimistic check.
C1_OneCompletionPerTask ==
  \A f \in DOMAIN flows :
    /\ Cardinality(CompletionLogs(f)) <= Cardinality(CompletedOf(f))
    /\ Cardinality(TasksOf(f)) <= 1 + Cardinality(CompletedOf(f))

\* C2: a flow instance has at most one PENDING task, and none once it is
\* COMPLETED or TERMINATED. Violated through the race of C1.
C2_AtMostOnePending ==
  \A f \in DOMAIN flows :
    /\ Cardinality(PendingOf(f)) <= 1
    /\ flows[f].status \in {"COMPLETED", "TERMINATED"} => PendingOf(f) = {}

\* C3: current_stage_id is non-null exactly when the status is ACTIVE.
\* Violated through the race of C1.
C3_StageIffActive ==
  \A f \in DOMAIN flows :
    (flows[f].current_stage_id # None) <=> (flows[f].status = "ACTIVE")

\* C4: completed_at is non-null exactly when the status is COMPLETED or
\* TERMINATED.
C4_CompletedAtIffFinished ==
  \A f \in DOMAIN flows :
    (flows[f].completed_at # None) <=> (flows[f].status \in {"COMPLETED", "TERMINATED"})

C4_Witness ==
  \E f \in DOMAIN flows :
    /\ flows[f].status = "COMPLETED"
    /\ flows[f].completed_at # None
    /\ \E i \in 1..Len(logs) : logs[i].activity_type = "FLOW_COMPLETED"

\* C5: every PENDING task of an ACTIVE flow instance is on the flow's
\* current stage with the flow's current assignee, and current_assignee_id
\* is null exactly when current_stage_id is null. Violated through the race
\* of C1 when the role's members change between the two completions.
C5_PendingMatchesFlow ==
  \A f \in DOMAIN flows :
    /\ flows[f].status = "ACTIVE" =>
         \A t \in PendingOf(f) :
           /\ tasks[t].stage_id = flows[f].current_stage_id
           /\ tasks[t].assignee_id = flows[f].current_assignee_id
    /\ (flows[f].current_assignee_id = None) <=> (flows[f].current_stage_id = None)

\* C6: a complete_task that finds a next stage without assignee answers
\* AssigneeUnresolvable and leaves the committed tables as they were: the
\* task is not completed, no form value is stored, the flow does not move.
C6_UnresolvableRollsBack ==
  [][\A s \in Sessions :
       (/\ sess[s].pc = "checked"
        /\ sess'[s].pc # "checked"
        /\ NextStageUnresolvable(s))
       => /\ Answered(s, "AssigneeUnresolvable")
          /\ UNCHANGED tables]_vars

C6_Witness ==
  /\ response.op = "complete_task" /\ response.outcome = "AssigneeUnresolvable"
  /\ roleUsers[1] = <<>>
  /\ formValues = <<>>
  /\ \E t \in TaskIds : tasks[t].status = "PENDING" /\ tasks[t].completed_at = None

\* C7: a complete_task by the assignee on a task that is not PENDING answers
\* TaskAlreadyResolved and changes nothing.
C7_ResolvedTaskRejected ==
  [][\A s \in Sessions, actor \in Users, form_data \in FormDataInputs :
       (/\ sess[s].pc = "loaded"
        /\ actor = sess[s].task.assignee_id
        /\ sess[s].task.status # "PENDING"
        /\ CT_Check(s, actor, form_data))
       => /\ Answered(s, "TaskAlreadyResolved")
          /\ UNCHANGED tables]_vars

C7_Witness ==
  /\ response.op = "complete_task" /\ response.outcome = "TaskAlreadyResolved"
  /\ \E t \in TaskIds : tasks[t].status = "COMPLETED"

\* C8: a complete_task by the assignee on a PENDING task whose form_data
\* lacks the key of a required field of the stage answers
\* MissingRequiredField and changes nothing.
C8_MissingRequiredRejected ==
  [][\A s \in Sessions, actor \in Users, form_data \in FormDataInputs :
       (/\ sess[s].pc = "loaded"
        /\ actor = sess[s].task.assignee_id
        /\ sess[s].task.status = "PENDING"
        /\ LacksRequiredKey(form_data, sess[s].task.stage_id)
        /\ CT_Check(s, actor, form_data))
       => /\ Answered(s, "MissingRequiredField")
          /\ UNCHANGED tables]_vars

C8_Witness ==
  /\ response.op = "complete_task" /\ response.outcome = "MissingRequiredField"
  /\ formValues = <<>>
  /\ \E t \in TaskIds : tasks[t].status = "PENDING"

\* C9 as stated: every complete_task whose form_data has a key that is not a
\* field of the task's stage answers UnknownField and changes nothing.
C9_AnyForeignKeyIsUnknownField ==
  [][\A s \in Sessions, actor \in Users, form_data \in FormDataInputs :
       (/\ sess[s].pc = "loaded"
        /\ HasForeignKey(form_data, sess[s].task.stage_id)
        /\ CT_Check(s, actor, form_data))
       => /\ Answered(s, "UnknownField")
          /\ UNCHANGED tables]_vars

\* C9: a complete_task whose form_data has a key that is not a field of the
\* task's stage is rejected and changes nothing, whatever valid keys come
\* before it; it answers UnknownField when the caller is the assignee, the
\* task is PENDING and no required field is missing, and the error of the
\* earlier check otherwise.
C9_ForeignKeyRejected ==
  [][\A s \in Sessions, actor \in Users, form_data \in FormDataInputs :
       (/\ sess[s].pc = "loaded"
        /\ HasForeignKey(form_data, sess[s].task.stage_id)
        /\ CT_Check(s, actor, form_data))
       => /\ UNCHANGED tables
          /\ IF actor # sess[s].task.assignee_id
               THEN Answered(s, "NotAssignee")
             ELSE IF sess[s].task.status # "PENDING"
               THEN Answered(s, "TaskAlreadyResolved")
             ELSE IF LacksRequiredKey(form_data, sess[s].task.stage_id)
               THEN Answered(s, "MissingRequiredField")
             ELSE Answered(s, "UnknownField")]_vars

C9_Witness ==
  /\ response.op = "complete_task" /\ response.outcome = "UnknownField"
  /\ formValues = <<>>
  /\ \E t \in TaskIds : tasks[t].status = "PENDING" /\ tasks[t].completed_at = None

\* C10: a complete_task whose actor is not the task's assignee answers
\* NotAssignee and changes nothing; a task becomes COMPLETED only in the
\* commit of a call made by its own assignee.
C10_OnlyAssigneeCompletes ==
  [][/\ \A s \in Sessions, actor \in Users, form_data \in FormDataInputs :
          (/\ sess[s].pc = "loaded"
           /\ actor # sess[s].task.assignee_id
           /\ CT_Check(s, actor, form_data))
          => /\ Answered(s, "NotAssignee")
             /\ UNCHANGED tables
     /\ \A t \in TaskIds :
          (tasks[t].status # "COMPLETED" /\ tasks'[t].status = "COMPLETED")
          => \E s \in Sessions :
               /\ sess[s].pc = "written"
               /\ sess[s].task_id = t
               /\ sess[s].actor = tasks[t].assignee_id
               /\ sess'[s].pc = "idle"]_vars

C10_Witness ==
  /\ response.op = "complete_task" /\ response.outcome = "NotAssignee"
  /\ \E t \in TaskIds : tasks[t].status = "COMPLETED"
  /\ \E t \in TaskIds : tasks[t].status = "PENDING"

\* the request of session s to create_flow_instance was answered in this step
AnsweredStart(s, outcome) ==
  /\ sess'[s].pc = "idle"
  /\ response'.op = "create_flow_instance"
  /\ response'.outcome = outcome

\* the stages of the template, from the stages table
StagesOfTemplate(template_id) ==
  { n \in DOMAIN Stages : Stages[n].flow_template_id = template_id }

\* spec 4.2: the stage with order 1, else the stage with the least order
FirstStageOfTemplate(template_id) ==
  LET ss == StagesOfTemplate(template_id)
  IN IF ss = {} THEN None
     ELSE IF \E n \in ss : Stages[n].order = 1
       THEN CHOOSE n \in ss : Stages[n].order = 1
     ELSE CHOOSE n \in ss : \A m \in ss : Stages[n].order <= Stages[m].order

\* spec 4.1: the users the stage's rule may yield for this initiator
AssigneesFor(stage_id, initiator) ==
  LET stage == Stages[stage_id]
  IN IF stage.assignment_type = "USER"
       THEN {stage.assignment_target_id} \cap Users
     ELSE IF stage.assignment_type = "ROLE"
       THEN IF stage.assignment_target_id \in DOMAIN roleUsers
              THEN { roleUsers[stage.assignment_target_id][i] :
                       i \in 1..Len(roleUsers[stage.assignment_target_id]) }
              ELSE {}
     ELSE IF stage.assignment_type = "INITIATOR" THEN {initiator}
     ELSE {}

\* C11: the commit of a create_flow_instance adds exactly one flow instance
\* (ACTIVE, on the template's first stage, with the assignee resolved for
\* that stage against the caller, initiated by the caller, not completed),
\* exactly one task of that flow (PENDING, first stage, that assignee) and
\* exactly one log entry of that flow, FLOW_STARTED; nothing else changes.
C11_StartFlowCreates ==
  [][\A s \in Sessions :
       (sess[s].pc = "flushed" /\ sess'[s].pc = "idle")
       => LET caller == sess[s].actor
              first == FirstStageOfTemplate(sess[s].newFlow.flow_template_id)
          IN /\ AnsweredStart(s, "ok")
             /\ \E f \in DOMAIN flows' :
                  /\ f \notin DOMAIN flows
                  /\ DOMAIN flows' = DOMAIN flows \cup {f}
                  /\ \A g \in DOMAIN flows : flows'[g] = flows[g]
                  /\ flows'[f].status = "ACTIVE"
                  /\ flows'[f].current_stage_id = first
                  /\ flows'[f].current_assignee_id \in AssigneesFor(first, caller)
                  /\ flows'[f].initiator_id = caller
                  /\ flows'[f].completed_at = None
                  /\ \A t \in 1..Len(tasks) : tasks[t].flow_instance_id # f
                  /\ Len(tasks') = Len(tasks) + 1
                  /\ SubSeq(tasks', 1, Len(tasks)) = tasks
                  /\ tasks'[Len(tasks')].flow_instance_id = f
                  /\ tasks'[Len(tasks')].status = "PENDING"
                  /\ tasks'[Len(tasks')].stage_id = first
                  /\ tasks'[Len(tasks')].assignee_id = flows'[f].current_assignee_id
                  /\ tasks'[Len(tasks')].completed_at = None
                  /\ \A i \in 1..Len(logs) : logs[i].flow_instance_id # f
                  /\ Len(logs') = Len(logs) + 1
                  /\ SubSeq(logs', 1, Len(logs)) = logs
                  /\ logs'[Len(logs')].flow_instance_id = f
                  /\ logs'[Len(logs')].activity_type = "FLOW_STARTED"
                  /\ formValues' = formValues]_vars

C11_Witness ==
  /\ response.op = "create_flow_instance" /\ response.outcome = "ok"
  /\ DOMAIN flows = {1}
  /\ flows[1].status = "ACTIVE"
  /\ Len(tasks) = 1
  /\ Len(logs) = 1

\* C12: in every committed state a flow instance exists exactly when its
\* first task and its FLOW_STARTED entry exist: every flow instance has a
\* task and a FLOW_STARTED entry, and every task and every log entry
\* belongs to a flow instance that exists.
C12_StartFlowAtomic ==
  /\ \A f \in DOMAIN flows :
       /\ \E t \in TaskIds : tasks[t].flow_instance_id = f
       /\ \E i \in 1..Len(logs) : /\ logs[i].flow_instance_id = f
                                  /\ logs[i].activity_type = "FLOW_STARTED"
  /\ \A t \in TaskIds : tasks[t].flow_instance_id \in DOMAIN flows
  /\ \A i \in 1..Len(logs) : logs[i].flow_instance_id \in DOMAIN flows

C12_Witness ==
  /\ \E s \in Sessions : sess[s].pc = "flushed" /\ sess[s].newFlow.id = 1
  /\ \E s \in Sessions : sess[s].pc = "idle"
  /\ DOMAIN flows = {}
  /\ tasks = <<>>
  /\ logs = <<>>

\* C13: a create_flow_instance fails, creating nothing, with
\* TemplateNotFound if the template does not exist, else TemplateInactive if
\* it is not active, else NoStagesDefined if it has no stage, else
\* AssigneeUnresolvable if the first stage has no assignee.
C13_StartFlowErrors ==
  [][\A s \in Sessions, template_id \in TemplateIdInputs, initiator \in InitiatorInputs :
       (sess[s].pc = "idle" /\ CreateFlow_Begin(s, template_id, initiator))
       => IF template_id \notin TemplateIds
            THEN AnsweredStart(s, "TemplateNotFound") /\ UNCHANGED <<tables, flowSeq>>
          ELSE IF ~tplActive[template_id]
            THEN AnsweredStart(s, "TemplateInactive") /\ UNCHANGED <<tables, flowSeq>>
          ELSE IF StagesOfTemplate(template_id) = {}
            THEN AnsweredStart(s, "NoStagesDefined") /\ UNCHANGED <<tables, flowSeq>>
          ELSE IF AssigneesFor(FirstStageOfTemplate(template_id), initiator) = {}
            THEN AnsweredStart(s, "AssigneeUnresolvable") /\ UNCHANGED <<tables, flowSeq>>
          ELSE sess'[s].pc = "flushed"]_vars

C13_Witness ==
  /\ response.op = "create_flow_instance" /\ response.outcome = "TemplateInactive"
  /\ \E t \in TemplateIds : ~tplActive[t] /\ StagesOfTemplate(t) = {}
  /\ flows = <<>> /\ tasks = <<>> /\ logs = <<>>

\* spec 4.2: the stage of the same template whose order is one more, or None
NextStageOfStage(stage_id) ==
  LET ss == { n \in StagesOfTemplate(Stages[stage_id].flow_template_id) :
                Stages[n].order = Stages[stage_id].order + 1 }
  IN IF ss = {} THEN None ELSE CHOOSE n \in ss : TRUE

\* session s commits its complete_task in this step
Commits(s) == sess[s].pc = "written" /\ sess'[s].pc = "idle"

\* C14: the commit of a complete_task on a task whose stage has a next stage
\* leaves the task COMPLETED with completed_at set, adds exactly one task
\* (PENDING, next stage, the assignee resolved for it), leaves the flow on
\* that stage with that assignee, ACTIVE and not completed, and appends
\* exactly one log entry, STAGE_COMPLETED. Violated through the race of C1.
C14_AdvancePost ==
  [][\A s \in Sessions :
       (Commits(s) /\ NextStageOfStage(tasks[sess[s].task_id].stage_id) # None)
       => LET t == sess[s].task_id
              f == tasks[t].flow_instance_id
              next == NextStageOfStage(tasks[t].stage_id)
              new == Len(tasks')
          IN /\ Answered(s, "ok")
             /\ tasks'[t].status = "COMPLETED"
             /\ tasks'[t].completed_at # None
             /\ new = Len(tasks) + 1
             /\ tasks'[new].flow_instance_id = f
             /\ tasks'[new].status = "PENDING"
             /\ tasks'[new].stage_id = next
             /\ tasks'[new].assignee_id \in AssigneesFor(next, flows[f].initiator_id)
             /\ flows'[f].current_stage_id = next
             /\ flows'[f].current_assignee_id = tasks'[new].assignee_id
             /\ flows'[f].status = "ACTIVE"
             /\ flows'[f].completed_at = None
             /\ Len(logs') = Len(logs) + 1
             /\ logs'[Len(logs')].flow_instance_id = f
             /\ logs'[Len(logs')].activity_type = "STAGE_COMPLETED"]_vars

C16_ResolvedAgainstInitiator ==
  [][\A s \in Sessions :
       (/\ Commits(s)
        /\ NextStageOfStage(tasks[sess[s].task_id].stage_id) # None
        /\ Stages[NextStageOfStage(tasks[sess[s].task_id].stage_id)].assignment_type
             = "INITIATOR")
       => /\ Len(tasks') = Len(tasks) + 1
          /\ tasks'[Len(tasks')].assignee_id
               = flows[tasks[sess[s].task_id].flow_instance_id].initiator_id]_vars

C16_Witness ==
  \E t \in TaskIds :
    /\ Stages[tasks[t].stage_id].assignment_type = "INITIATOR"
    /\ Stages[tasks[t].stage_id].order = 2
    /\ tasks[t].assignee_id = flows[tasks[t].flow_instance_id].initiator_id
    /\ \E i \in 1..Len(logs) :
         /\ logs[i].activity_type = "STAGE_COMPLETED"
         /\ logs[i].actor_id # flows[tasks[t].flow_instance_id].initiator_id

\* the ids in a list of stages
StagesIn(stageList) == { stageList[i] : i \in 1..Len(stageList) }

\* C17: get_next_stage returns the stage of the list whose order is the
\* current stage's order plus one, and None when the list has no such stage
\* (the empty list included); it never returns a stage of another order.
C17_NextStage ==
  call.fn = "get_next_stage" =>
    LET wanted == { n \in StagesIn(call.stages) :
                      Stages[n].order = Stages[call.current].order + 1 }
    IN IF wanted = {} THEN call.result = None ELSE call.result \in wanted

C17_Witness ==
  /\ call.fn = "get_next_stage"
  /\ Len(call.stages) = 3
  /\ call.result # None
  /\ Stages[call.result].order = Stages[call.current].order + 1

\* C18: get_first_stage returns the stage with order 1 when the list has one,
\* otherwise the stage with the least order, and None only for the empty list.
C18_FirstStage ==
  call.fn = "get_first_stage" =>
    LET ss == StagesIn(call.stages)
        ones == { n \in ss : Stages[n].order = 1 }
    IN IF ss = {} THEN call.result = None
       ELSE IF ones # {} THEN call.result \in ones
       ELSE /\ call.result \in ss
            /\ \A m \in ss : Stages[call.result].order <= Stages[m].order

C18_Witness ==
  /\ call.fn = "get_first_stage"
  /\ Len(call.stages) >= 2
  /\ call.result # None
  /\ Stages[call.result].order > 1

\* C19: resolve_assignee returns, for USER, the user with id target_id, or
\* None if there is no target or no such user; for ROLE, a member of the
\* role with id target_id, or None if there is no target, no such role or no
\* member; for INITIATOR, the initiator whatever the target; for EXTERNAL,
\* None whatever the target and the initiator.
C19_Resolve ==
  call.fn = "resolve_assignee" =>
    LET type == call.stage.assignment_type
        target == call.stage.assignment_target_id
        members == IF target \in DOMAIN call.members
                     THEN { call.members[target][i] : i \in 1..Len(call.members[target]) }
                     ELSE {}
    IN /\ type = "USER" =>
            IF target # None /\ target \in Users
              THEN call.result = target ELSE call.result = None
       /\ type = "ROLE" =>
            IF target # None /\ members # {}
              THEN call.result \in members ELSE call.result = None
       /\ type = "INITIATOR" => call.result = call.initiator
       /\ type = "EXTERNAL" => call.result = None

C19_Witness ==
  /\ call.fn = "resolve_assignee"
  /\ call.stage.assignment_type = "ROLE"
  /\ call.stage.assignment_target_id = 1
  /\ Len(call.members[1]) = 3
  /\ call.result \in Users

\* the users of each role, whatever the order of the rows
MembersOf(members) ==
  [r \in DOMAIN members |-> { members[r][i] : i \in 1..Len(members[r]) }]

\* C20: a call of resolve_assignee with the stage and the initiator of the
\* call before it, and the same members in every role, returns the same
\* user, and no call changes stored state. Violated: the member returned
\* for a ROLE stage is the first row of a query without ORDER BY.
C20_ResolveDeterministic ==
  [][(call'.fn = "resolve_assignee" /\ call' # call)
     => /\ UNCHANGED <<dbVars, cfgVars>>
        /\ (/\ call.fn = "resolve_assignee"
            /\ call'.stage = call.stage
            /\ call'.initiator = call.initiator
            /\ MembersOf(call'.members) = MembersOf(call.members))
           => call'.result = call.result]_vars

\* C21: a task is created PENDING and its status changes at most once, from
\* PENDING to COMPLETED; the status and completed_at of a COMPLETED task never
\* change again. Violated through the race of C1: the second of two racing
\* complete_task requests writes its own completed_at over the first one's.
C21_CompletedOnce ==
  [][/\ Len(tasks') >= Len(tasks)
     /\ \A t \in (Len(tasks) + 1)..Len(tasks') : tasks'[t].status = "PENDING"
     /\ \A t \in TaskIds :
          /\ tasks'[t].status # tasks[t].status
               => tasks[t].status = "PENDING" /\ tasks'[t].status = "COMPLETED"
          /\ tasks[t].status = "COMPLETED"
               => /\ tasks'[t].status = "COMPLETED"
                  /\ tasks'[t].completed_at = tasks[t].completed_at]_vars

\* session s commits its create_flow_instance in this step
CommitsStart(s) == sess[s].pc = "flushed" /\ sess'[s].pc = "idle"

C23_FormValues ==
  /\ [](\A i \in 1..Len(formValues) :
          /\ formValues[i].task_instance_id \in TaskIds
          /\ tasks[formValues[i].task_instance_id].status = "COMPLETED"
          /\ \A j \in 1..Len(formValues) :
               (/\ formValues[j].task_instance_id = formValues[i].task_instance_id
                /\ formValues[j].form_field_id = formValues[i].form_field_id)
               => i = j)
  /\ [][/\ Len(formValues') >= Len(formValues)
        /\ SubSeq(formValues', 1, Len(formValues)) = formValues
        /\ formValues' # formValues => \E s \in Sessions : Commits(s)
        /\ \A s \in Sessions :
             Commits(s)
             => LET form_data == sess[s].form_data
                    added == SubSeq(formValues', Len(formValues) + 1, Len(formValues'))
                IN /\ Len(added) = Len(form_data)
                   /\ \A i \in 1..Len(form_data) :
                        /\ added[i].task_instance_id = sess[s].task_id
                        /\ added[i].form_field_id = form_data[i][1]
                        /\ added[i].value = form_data[i][2]]_vars

\* C24: the template and the initiator of a flow instance never change, and
\* a flow instance row changes only in the commit of a complete_task that
\* answers ok on a task of that flow instance.
C24_FlowFrame ==
  [][\A f \in DOMAIN flows :
       /\ f \in DOMAIN flows'
       /\ flows'[f].flow_template_id = flows[f].flow_template_id
       /\ flows'[f].initiator_id = flows[f].initiator_id
       /\ flows'[f].started_at = flows[f].started_at
       /\ flows'[f] # flows[f]
            => \E s \in Sessions :
                 /\ Commits(s)
                 /\ Answered(s, "ok")
                 /\ tasks[sess[s].task_id].flow_instance_id = f]_vars

\* both flow instances were advanced and are still those of template 1 and
\* template 2 started by user 1
C24_Witness ==
  /\ flows[1].current_stage_id = 2
  /\ flows[2].current_stage_id = 4
  /\ flows[1].flow_template_id = 1 /\ flows[1].initiator_id = 1
  /\ flows[2].flow_template_id = 2 /\ flows[2].initiator_id = 1

\* C25: no flow instance is ever STALLED; create_flow_instance and
\* complete_task leave a flow ACTIVE or COMPLETED.
C25_NeverStalled ==
  \A f \in DOMAIN flows : flows[f].status \in {"ACTIVE", "COMPLETED"}

\* a complete_task found no assignee for the next stage and the flow is
\* still ACTIVE
C25_Witness ==
  /\ response.op = "complete_task" /\ response.outcome = "AssigneeUnresolvable"
  /\ \E f \in DOMAIN flows :
       /\ flows[f].status = "ACTIVE"
       /\ CompletedOf(f) # {}

\* no other session is inside a request on the flow instance of session s
AloneOnFlow(s) ==
  \A o \in Sessions \ {s} : sess[o].pc = "idle" \/ sess[o].flow.id # sess[s].flow.id

\* the rows of flow f are those one complete_task on its first task (id f)
\* leaves when it runs alone
AdvancedOnce(f) ==
  LET next == NextStageOfStage(tasks[f].stage_id)
      others == TasksOf(f) \ {f}
      entries == { i \in 1..Len(logs) : logs[i].flow_instance_id = f }
  IN /\ tasks[f].status = "COMPLETED"
     /\ Cardinality(others) = 1
     /\ \A n \in others :
          /\ tasks[n].status = "PENDING"
          /\ tasks[n].stage_id = next
          /\ tasks[n].assignee_id \in AssigneesFor(next, flows[f].initiator_id)
          /\ flows[f].current_assignee_id = tasks[n].assignee_id
     /\ flows[f].status = "ACTIVE"
     /\ flows[f].completed_at = None
     /\ flows[f].current_stage_id = next
     /\ Cardinality(entries) = 2
     /\ \A i \in 1..Len(formValues) :
          tasks[formValues[i].task_instance_id].flow_instance_id = f
            => /\ formValues[i].task_instance_id = f
               /\ FormFields[formValues[i].form_field_id].stage_id = tasks[f].stage_id

\* C26: the commit of a complete_task changes no row of another flow
\* instance (flow, tasks, form values, log entries); a complete_task is never
\* held up by a request on another flow instance, so two of them on
\* different flows both answer ok in any interleaving; and a flow with one
\* completed task has the rows the request leaves when it runs alone,
\* whatever was done to the other flow meanwhile.
C26_FlowsIndependent ==
  /\ [][\A s \in Sessions :
          Commits(s)
          => LET f == tasks[sess[s].task_id].flow_instance_id
             IN /\ Answered(s, "ok")
                /\ \A g \in DOMAIN flows \ {f} : flows'[g] = flows[g]
                /\ \A t \in TaskIds :
                     tasks[t].flow_instance_id # f => tasks'[t] = tasks[t]
                /\ \A t \in (Len(tasks) + 1)..Len(tasks') :
                     tasks'[t].flow_instance_id = f
                /\ SubSeq(formValues', 1, Len(formValues)) = formValues
                /\ \A i \in (Len(formValues) + 1)..Len(formValues') :
                     tasks[formValues'[i].task_instance_id].flow_instance_id = f
                /\ SubSeq(logs', 1, Len(logs)) = logs
                /\ \A i \in (Len(logs) + 1)..Len(logs') :
                     logs'[i].flow_instance_id = f]_vars
  /\ [](\A s \in Sessions :
          /\ (sess[s].pc = "checked" /\ AloneOnFlow(s)) => ENABLED CT_Write(s)
          /\ (sess[s].pc = "written" /\ AloneOnFlow(s)) => ENABLED CT_Commit(s))
  /\ [](\A f \in DOMAIN flows :
          Cardinality(CompletionLogs(f)) = 1 => AdvancedOnce(f))

\* a complete_task on flow 2 has been committed while one on flow 1, holding
\* the lock of its task row, waits for its commit
C26_Witness ==
  /\ response.op = "complete_task" /\ response.outcome = "ok"
  /\ response.flow_instance.flow.id = 2
  /\ Cardinality(CompletionLogs(2)) = 1
  /\ \E s \in Sessions :
       /\ sess[s].pc = "written"
       /\ sess[s].flow.id = 1
       /\ sess[s].lock = sess[s].task_id
       /\ sess[s].flow = flows[1]

\* C27: get_user_tasks(user) returns exactly the tasks assigned to the user
\* that are PENDING, each once, and therefore never a task of a COMPLETED
\* flow instance. Violated through the race of C1 and C2: a PENDING task
\* left behind in a COMPLETED flow is returned.
C27_MyTasks ==
  [][\A u \in Users :
       GetUserTasks(u)
       => LET result == response'.tasks
              ids == { result[i].id : i \in 1..Len(result) }
          IN /\ ids = { t \in TaskIds : /\ tasks[t].assignee_id = u
                                        /\ tasks[t].status = "PENDING" }
             /\ Cardinality(ids) = Len(result)
             /\ \A i \in 1..Len(result) :
                  flows[result[i].flow_instance_id].status # "COMPLETED"]_vars

\* what get_flow_instance returns for flow f right after this step
GetAfterwards(f) ==
  get_flow_instance_response(flows', tasks', formValues', logs', f, clock')

C29_Elapsed ==
  [][\A f \in DOMAIN flows :
       LET before == calculate_elapsed_time(flows[f].started_at,
                                            flows[f].completed_at, clock)
           after == calculate_elapsed_time(flows'[f].started_at,
                                           flows'[f].completed_at, clock')
       IN /\ before >= 0
          /\ after >= 0
          /\ before = tasks_calculate_elapsed_time(flows[f].started_at,
                                                   flows[f].completed_at, clock)
          /\ (flows[f].completed_at = None /\ flows'[f].completed_at = None)
               => after >= before
          /\ flows[f].completed_at # None
               => /\ after = before
                  /\ before = flows[f].completed_at - flows[f].started_at]_vars

\* C30: complete_task reports the first check that fails, in the order
\* TaskNotFound, NotAssignee, TaskAlreadyResolved, MissingRequiredField,
\* UnknownField: a caller who is not the assignee gets NotAssignee also on a
\* COMPLETED task, and form_data that lacks a required field gets
\* MissingRequiredField also when it carries a key that is no field of the
\* stage. A request that fails changes no table.
C30_CheckOrder ==
  [][/\ \A s \in Sessions, task_id \in 1..(Len(tasks) + 1) :
          (/\ sess[s].pc = "idle"
           /\ task_id \notin TaskIds
           /\ response' # response
           /\ CT_Load(s, task_id))
          => Answered(s, "TaskNotFound") /\ UNCHANGED tables
     /\ \A s \in Sessions, actor \in Users, form_data \in FormDataInputs :
          (sess[s].pc = "loaded" /\ sess'[s].pc # "loaded")
          => LET task == sess[s].task
                 foreign == actor # task.assignee_id
                 resolved == task.status # "PENDING"
                 missing == LacksRequiredKey(form_data, task.stage_id)
                 unknown == HasForeignKey(form_data, task.stage_id)
             IN \/ /\ foreign => Answered(s, "NotAssignee")
                   /\ (~foreign /\ resolved) => Answered(s, "TaskAlreadyResolved")
                   /\ (~foreign /\ ~resolved /\ missing)
                        => Answered(s, "MissingRequiredField")
                   /\ (~foreign /\ ~resolved /\ ~missing /\ unknown)
                        => Answered(s, "UnknownField")
                   /\ (~foreign /\ ~resolved /\ ~missing /\ ~unknown)
                        => sess'[s].pc = "checked" /\ UNCHANGED response
                   /\ UNCHANGED tables
                \/ ~CT_Check(s, actor, form_data)]_vars

\* a request on a flow whose tasks are all COMPLETED was answered NotAssignee
C30_Witness ==
  /\ response.op = "complete_task" /\ response.outcome = "NotAssignee"
  /\ TaskIds # {}
  /\ \A t \in TaskIds : tasks[t].status = "COMPLETED"
  /\ \A s \in Sessions : sess[s].pc = "idle"

\* C31 as stated: a complete_task of the assignee on a PENDING task whose
\* form_data has every required field of the stage as a key and only fields
\* of the stage as keys succeeds. Violated when the next stage has no
\* assignee: the request has passed validation and answers 500.
C31_ValidAlwaysSucceeds ==
  [][\A s \in Sessions :
       (sess[s].pc = "checked" /\ sess'[s].pc # "checked")
       => sess'[s].pc = "written"]_vars

\* C31, amended: validation looks at keys only. Such a request passes
\* validation whatever its values are (also a value of another type than the
\* field's), with or without the optional fields, and with empty form_data
\* on a stage without required fields; it then fails only when the next
\* stage has no assignee, and otherwise commits, answers ok and stores the
\* values as supplied.
C31_PresenceOnly ==
  [][/\ \A s \in Sessions, actor \in ValueRunActors, form_data \in ValueFormInputs :
          (/\ sess[s].pc = "loaded"
           /\ sess'[s].pc # "loaded"
           /\ actor = sess[s].task.assignee_id
           /\ sess[s].task.status = "PENDING"
           /\ ~LacksRequiredKey(form_data, sess[s].task.stage_id)
           /\ ~HasForeignKey(form_data, sess[s].task.stage_id))
          => \/ /\ sess'[s].pc = "checked"
                /\ sess'[s].form_data = form_data
                /\ Len(sess'[s].newValues) = Len(form_data)
                /\ UNCHANGED response
             \/ ~CT_Check(s, actor, form_data)
     /\ \A s \in Sessions :
          (sess[s].pc = "checked" /\ sess'[s].pc # "checked")
          => IF NextStageUnresolvable(s)
               THEN Answered(s, "AssigneeUnresolvable") /\ UNCHANGED tables
               ELSE sess'[s].pc = "written"
     /\ \A s \in Sessions :
          Commits(s)
          => /\ Answered(s, "ok")
             /\ Len(formValues') = Len(formValues) + Len(sess[s].form_data)
             /\ \A i \in 1..Len(sess[s].form_data) :
                  /\ formValues'[Len(formValues) + i].form_field_id = sess[s].form_data[i][1]
                  /\ formValues'[Len(formValues) + i].value = sess[s].form_data[i][2]]_vars

\* a number was stored for text field 1 without the optional field 2, and
\* the request answered ok
C31_Witness ==
  /\ response.op = "complete_task" /\ response.outcome = "ok"
  /\ Len(formValues) = 1
  /\ formValues[1].form_field_id = 1
  /\ formValues[1].value = "number:7"
  /\ TypeOfValue(formValues[1].value) # FormFields[1].field_type

\* the entries of flow f in the activity log, by position
LogsOf(f) == { i \in 1..Len(logs) : logs[i].flow_instance_id = f }

\* the form values of the tasks of flow f, by position
ValuesOf(f) ==
  { i \in 1..Len(formValues) :
      tasks[formValues[i].task_instance_id].flow_instance_id = f }

\* C32: COMPLETED is absorbing: no step changes the status, completed_at,
\* current_stage_id or current_assignee_id of a COMPLETED flow instance or
\* adds a task, a form value or a log entry to it. Violated through the race
\* of C1: a complete_task that loaded its task before the flow was completed
\* commits afterwards.
C32_CompletedAbsorbing ==
  [][\A f \in DOMAIN flows :
       flows[f].status = "COMPLETED"
       => /\ flows'[f].status = "COMPLETED"
          /\ flows'[f].completed_at = flows[f].completed_at
          /\ flows'[f].current_stage_id = flows[f].current_stage_id
          /\ flows'[f].current_assignee_id = flows[f].current_assignee_id
          /\ TasksOf(f)' = TasksOf(f)
          /\ ValuesOf(f)' = ValuesOf(f)
          /\ LogsOf(f)' = LogsOf(f)]_vars

\* the stage orders of the template are exactly 1..n
LinearTemplate(template_id) ==
  LET ss == StagesOfTemplate(template_id)
  IN /\ ss # {}
     /\ { Stages[n].order : n \in ss } = 1..Cardinality(ss)
     /\ \A m, n \in ss : Stages[m].order = Stages[n].order => m = n

\* the entries of flow f with the given activity type
LogsOfType(f, activity_type) ==
  { i \in LogsOf(f) : logs[i].activity_type = activity_type }

\* C33: in a flow of a template with stage orders 1..n the k-th task is on
\* the stage of order k; the flow becomes COMPLETED only in the commit of a
\* complete_task on a task of stage n; a COMPLETED flow has n tasks, all
\* COMPLETED, one FLOW_STARTED, n-1 STAGE_COMPLETED and one FLOW_COMPLETED
\* entry. Violated through the race of C1: the second racing request adds a
\* second task on the same stage and a second entry.
C33_LinearProgress ==
  /\ [](\A f \in DOMAIN flows :
          LinearTemplate(flows[f].flow_template_id)
          => LET n == Cardinality(StagesOfTemplate(flows[f].flow_template_id))
             IN /\ \A t \in TasksOf(f) :
                     Stages[tasks[t].stage_id].order
                       = Cardinality({ u \in TasksOf(f) : u <= t })
                /\ flows[f].status = "COMPLETED"
                     => /\ Cardinality(TasksOf(f)) = n
                        /\ CompletedOf(f) = TasksOf(f)
                        /\ Cardinality(LogsOfType(f, "FLOW_STARTED")) = 1
                        /\ Cardinality(LogsOfType(f, "STAGE_COMPLETED")) = n - 1
                        /\ Cardinality(LogsOfType(f, "FLOW_COMPLETED")) = 1)
  /\ [][\A f \in DOMAIN flows :
          (/\ LinearTemplate(flows[f].flow_template_id)
           /\ flows[f].status # "COMPLETED"
           /\ flows'[f].status = "COMPLETED")
          => \E s \in Sessions :
               /\ Commits(s)
               /\ tasks[sess[s].task_id].flow_instance_id = f
               /\ Stages[tasks[sess[s].task_id].stage_id].order
                    = Cardinality(StagesOfTemplate(flows[f].flow_template_id))]_vars

\* the stages of the template behind the first gap in its orders
StagesAfterGap(template_id) ==
  { n \in StagesOfTemplate(template_id) :
      \E k \in 1..Stages[n].order :
        /\ k > 1
        /\ \A m \in StagesOfTemplate(template_id) : Stages[m].order # k - 1 }

\* C34: in a flow of a template whose stage orders have a gap (template 7:
\* 1, 2, 4) the commit of a complete_task on the task of the last stage
\* before the gap leaves the flow COMPLETED, and no task is ever created on
\* a stage behind the gap.
C34_GapEndsFlow ==
  /\ [](\A t \in TaskIds :
          tasks[t].stage_id
            \notin StagesAfterGap(flows[tasks[t].flow_instance_id].flow_template_id))
  /\ [][\A s \in Sessions :
          (/\ Commits(s)
           /\ StagesAfterGap(Stages[tasks[sess[s].task_id].stage_id].flow_template_id) # {}
           /\ NextStageOfStage(tasks[sess[s].task_id].stage_id) = None)
          => LET f == tasks[sess[s].task_id].flow_instance_id
             IN /\ Answered(s, "ok")
                /\ flows'[f].status = "COMPLETED"
                /\ flows'[f].completed_at # None
                /\ Len(tasks') = Len(tasks)]_vars

\* a flow of template 7 is COMPLETED after its tasks on stages 9 and 10, with
\* stage 11 (order 4) left without a task
C34_Witness ==
  /\ response.op = "complete_task" /\ response.outcome = "ok"
  /\ \E f \in DOMAIN flows :
       /\ flows[f].flow_template_id = 7
       /\ flows[f].status = "COMPLETED"
       /\ { tasks[t].stage_id : t \in CompletedOf(f) } = {9, 10}
       /\ StagesAfterGap(7) = {11}

\* the number of stages reached from the stage by order + 1 steps, itself
\* included
RECURSIVE StagesFrom(_)
StagesFrom(stage_id) ==
  IF NextStageOfStage(stage_id) = None THEN 1
  ELSE 1 + StagesFrom(NextStageOfStage(stage_id))

\* C35: with every stage's assignee resolvable and every PENDING task
\* eventually completed by its assignee with valid form_data, every started
\* flow instance eventually is COMPLETED, and it becomes COMPLETED after
\* exactly as many successful completions as there are stages reachable from
\* the first stage by order + 1 steps. Violated through the race of C1: two
\* racing requests on one task both succeed, so the flow is COMPLETED after
\* one completion more.
C35_FlowsComplete ==
  /\ \A f \in 1..MaxFlows :
       (f \in DOMAIN flows) ~> (f \in DOMAIN flows /\ flows[f].status = "COMPLETED")
  /\ [][\A f \in DOMAIN flows :
          (flows[f].status # "COMPLETED" /\ flows'[f].status = "COMPLETED")
          => Cardinality(CompletionLogs(f))'
               = StagesFrom(FirstStageOfTemplate(flows[f].flow_template_id))]_vars

\* C36: no flow instance is ever TERMINATED and no FLOW_TERMINATED entry is
\* ever logged: the status of every flow is ACTIVE or COMPLETED, a flow is
\* created ACTIVE, and the only change of a status is from ACTIVE to
\* COMPLETED.
C36_NeverTerminated ==
  /\ [](/\ \A f \in DOMAIN flows : flows[f].status \in {"ACTIVE", "COMPLETED"}
        /\ \A i \in 1..Len(logs) :
             logs[i].activity_type
               \in {"FLOW_STARTED", "STAGE_COMPLETED", "FLOW_COMPLETED"})
  /\ [][/\ \A f \in DOMAIN flows' \ DOMAIN flows : flows'[f].status = "ACTIVE"
        /\ \A f \in DOMAIN flows :
             flows'[f].status # flows[f].status
             => flows[f].status = "ACTIVE" /\ flows'[f].status = "COMPLETED"]_vars

\* a flow went from ACTIVE to COMPLETED
C36_Witness ==
  \E f \in DOMAIN flows :
    /\ flows[f].status = "COMPLETED"
    /\ LogsOfType(f, "FLOW_COMPLETED") # {}
    /\ LogsOfType(f, "STAGE_COMPLETED") # {}

\* C37: the log of each flow instance starts with its one FLOW_STARTED
\* entry, continues with STAGE_COMPLETED entries only, and ends with one
\* FLOW_COMPLETED entry exactly when the flow is COMPLETED; it has as many
\* STAGE_COMPLETED and FLOW_COMPLETED entries as the flow has COMPLETED
\* tasks. Violated through the race of C1: both racing requests log their
\* completion of the same task.
C37_LogShape ==
  \A f \in DOMAIN flows :
    LET entries == LogsOf(f)
        first == CHOOSE i \in entries : \A j \in entries : i <= j
        last == CHOOSE i \in entries : \A j \in entries : j <= i
    IN /\ entries # {}
       /\ logs[first].activity_type = "FLOW_STARTED"
       /\ \A i \in entries \ {first, last} : logs[i].activity_type = "STAGE_COMPLETED"
       /\ last # first
            => logs[last].activity_type \in {"STAGE_COMPLETED", "FLOW_COMPLETED"}
       /\ (last # first /\ logs[last].activity_type = "FLOW_COMPLETED")
            <=> flows[f].status = "COMPLETED"
       /\ Cardinality(CompletionLogs(f)) = Cardinality(CompletedOf(f))

\* C38: the actor of the STAGE_COMPLETED or FLOW_COMPLETED entry a
\* complete_task commits is the assignee of the task it completed, and the
\* actor of the FLOW_STARTED entry a create_flow_instance commits is the
\* initiator of the flow.
C38_LogActor ==
  [][\A s \in Sessions :
       /\ Commits(s)
            => /\ Len(logs') = Len(logs) + 1
               /\ logs'[Len(logs')].activity_type \in {"STAGE_COMPLETED", "FLOW_COMPLETED"}
               /\ logs'[Len(logs')].flow_instance_id
                    = tasks[sess[s].task_id].flow_instance_id
               /\ logs'[Len(logs')].stage_id = tasks[sess[s].task_id].stage_id
               /\ logs'[Len(logs')].actor_id = tasks[sess[s].task_id].assignee_id
               /\ logs'[Len(logs')].actor_id = tasks'[sess[s].task_id].assignee_id
       /\ CommitsStart(s)
            => /\ Len(logs') = Len(logs) + 1
               /\ logs'[Len(logs')].activity_type = "FLOW_STARTED"
               /\ logs'[Len(logs')].flow_instance_id \in DOMAIN flows' \ DOMAIN flows
               /\ logs'[Len(logs')].actor_id
                    = flows'[logs'[Len(logs')].flow_instance_id].initiator_id]_vars

\* user 2 completed the task of stage 3 in a flow that user 1 started
C38_Witness ==
  \E i \in 1..Len(logs) :
    /\ logs[i].activity_type = "STAGE_COMPLETED"
    /\ logs[i].stage_id = 3
    /\ logs[i].actor_id = 2
    /\ flows[logs[i].flow_instance_id].initiator_id = 1
    /\ logs[1].activity_type = "FLOW_STARTED" /\ logs[1].actor_id = 1

\* C39: is_active is read by create_flow_instance only. While the template
\* of a flow is inactive, a create_flow_instance on it answers
\* TemplateInactive and changes no table, and every step of a complete_task
\* on the flow goes as it would with the template active: a valid request of
\* the assignee on a PENDING task passes the checks, is written when the next
\* stage has an assignee, and commits with ok.
C39_ActiveReadByStartOnly ==
  [][/\ \A s \in Sessions :
          (/\ sess[s].pc = "idle"
           /\ ~tplActive[1]
           /\ response' # response
           /\ CreateFlow_Begin(s, 1, 1))
          => AnsweredStart(s, "TemplateInactive") /\ UNCHANGED tables
     /\ \A s \in Sessions, actor \in ReadRunActors, form_data \in ReadRunFormInputs :
          (/\ sess[s].pc = "loaded"
           /\ sess'[s].pc # "loaded"
           /\ ~tplActive[sess[s].flow.flow_template_id]
           /\ actor = sess[s].task.assignee_id
           /\ sess[s].task.status = "PENDING"
           /\ ~LacksRequiredKey(form_data, sess[s].task.stage_id)
           /\ ~HasForeignKey(form_data, sess[s].task.stage_id))
          => \/ sess'[s].pc = "checked" /\ UNCHANGED response
             \/ ~CT_Check(s, actor, form_data)
     /\ \A s \in Sessions :
          (/\ sess[s].pc = "checked"
           /\ sess'[s].pc # "checked"
           /\ ~tplActive[sess[s].flow.flow_template_id]
           /\ ~NextStageUnresolvable(s))
          => sess'[s].pc = "written"
     /\ \A s \in Sessions :
          (Commits(s) /\ ~tplActive[sess[s].flow.flow_template_id])
          => /\ Answered(s, "ok")
             /\ tasks'[sess[s].task_id].status = "COMPLETED"
             /\ Len(logs') = Len(logs) + 1]_vars

\* the last request answered is a complete_task that finished a flow of
\* template 1 while the template was inactive
C39_Witness ==
  /\ ~tplActive[1]
  /\ response.op = "complete_task" /\ response.outcome = "ok"
  /\ response.flow_instance.flow.status = "COMPLETED"
  /\ response.flow_instance.flow.flow_template_id = 1
  /\ Len(response.flow_instance.tasks) = 2

\* C40: the flow instance, stage and assignee of a task never change after
\* its creation; a change of a role's membership changes no task and no
\* flow instance, so the PENDING task of a ROLE stage keeps its assignee and
\* the flow its current_assignee_id; a task written afterwards for a ROLE
\* stage goes to the first member the role has then.
C40_TaskFrame ==
  [][/\ \A t \in TaskIds :
          /\ t \in 1..Len(tasks')
          /\ tasks'[t].flow_instance_id = tasks[t].flow_instance_id
          /\ tasks'[t].stage_id = tasks[t].stage_id
          /\ tasks'[t].assignee_id = tasks[t].assignee_id
     /\ roleUsers' # roleUsers => UNCHANGED <<tables, sess>>
     /\ \A s \in Sessions :
          (sess[s].pc = "checked" /\ sess'[s].pc = "written"
           /\ sess'[s].newTasks # <<>>
           /\ Stages[sess'[s].newTasks[1].stage_id].assignment_type = "ROLE")
          => sess'[s].newTasks[1].assignee_id
               = Head(roleUsers[Stages[sess'[s].newTasks[1].stage_id].assignment_target_id])
     /\ \A s \in Sessions :
          Commits(s)
          => \A t \in (Len(tasks) + 1)..Len(tasks') :
               tasks'[t].assignee_id = sess[s].newTasks[1].assignee_id]_vars

\* the PENDING task of ROLE stage 2 is still user 2's, and so is the flow's
\* current_assignee_id, after the role's only member became user 3
C40_Witness ==
  /\ roleUsers[1] = <<3>>
  /\ \E t \in TaskIds :
       /\ tasks[t].status = "PENDING"
       /\ tasks[t].stage_id = 2
       /\ tasks[t].assignee_id = 2
       /\ flows[tasks[t].flow_instance_id].current_assignee_id = 2

====
